---- MODULE Spec2Model ----
(***************************************************************************)
(* Model of the device-session control plane of mobile-mcp's web           *)
(* interface: the Device Service (web-device-service.ts), the Command      *)
(* Service (web-command-service.ts) and the WebSocket hub                  *)
(* (web-websocket.ts).                                                     *)
(*                                                                         *)
(* JavaScript values are records with a kind field k (and a string v), so  *)
(* that typeof, truthiness and strict equality are computed as the code    *)
(* computes them.  Promises are modelled by splitting a handler at the     *)
(* awaits (a robot operation, the device lookup, a screenshot capture).    *)
(***************************************************************************)
EXTENDS Integers, Sequences, FiniteSets, TLC

VARIABLES
  \* ---- Device Service (DeviceService fields and its enumerators)
  devices,        \* this.devices: Map<string, DeviceInfo>, in insertion order
  live,           \* what the platform enumerators report right now
  listing,        \* the list returned by the latest listDevices call
  changeCallbacks,  \* this.changeCallbacks: Set<DeviceChangeCallback>
  pollingInterval,  \* this.pollingInterval: an interval id, 0 for null
  pollTimers,     \* the intervals startPolling set and nobody cleared
  svcOut,         \* what the latest Device Service step handed to
                  \* wsHandler.broadcast and to the change callbacks
  \* ---- Command Service
  wsHandler,      \* CommandService.wsHandler is set
  ePc,            \* executeCommand: "idle" | "await" | "returned" | "threw"
  eArgs,          \* executeCommand's arguments
  eOps,           \* robot operations of the running command still to be awaited
  eResult,        \* what executeCommand returned (or the error that escaped)
  sPc,            \* executeScript: "idle" | "loop" | "await" | "done"
  sDeviceId,      \* executeScript's deviceId
  sScript,        \* executeScript's script, as lines
  sCommands,      \* const commands = this.parseScript(script)
  sI,             \* the loop index i
  sResults,       \* const results: CommandResult[]
  execLog,        \* history: the calls of executeCommand, in order
  robotLog,       \* history: the robot operations invoked, each with the number of its call
  broadcastLog,   \* history: the events handed to wsHandler.broadcast, in order
  \* ---- WebSocket hub
  clientState,    \* per client id: "new" | "open" | "closed"
  subscriptions,  \* this.subscriptions: client id -> ClientSubscription, NoSub when absent
  tasks,          \* the handleSubscribe calls in flight, by task id
  nextTask,       \* the next task id
  timers,         \* the intervals set by setInterval and not cleared
  wants,          \* history: the types a client subscribed to and did not unsubscribe
  delivered,      \* what the latest step put on the wire (by broadcast or by
                  \* sendToClient), and the clients it was sent to
  \* ---- Web server: configuration, HTTP pipeline, WebSocket handshake
  config,         \* this.config: WebServerConfig
  request,        \* the latest HTTP request or upgrade request
  response,       \* the answer to it, and the stages of the pipeline it passed
  peer,           \* history: the upgrade request each client was accepted with
  \* ---- The browser's WebSocket client
  webSocketService, \* the WebSocketService object, a record of its fields
  \* ---- The Node.js process of the server
  process         \* process.env, the config file, what loadConfig returned,
                  \* and the promise rejection of the latest step nobody handled

devVars == <<devices, live, listing>>
pollVars == <<changeCallbacks, pollingInterval, pollTimers, svcOut>>
execVars == <<ePc, eArgs, eOps, eResult>>
scriptVars == <<sPc, sDeviceId, sScript, sCommands, sI, sResults>>
logVars == <<execLog, robotLog, broadcastLog>>
cmdVars == <<wsHandler, execVars, scriptVars, logVars>>
hubVars == <<clientState, subscriptions, tasks, nextTask, timers, wants>>
gateVars == <<config, request, response, peer>>
feVars == <<webSocketService>>
nodeVars == <<process>>
extVars == <<gateVars, feVars, nodeVars>>
vars == <<devVars, pollVars, cmdVars, hubVars, delivered, extVars>>

(***************************************************************************)
(* Bounds                                                                  *)
(***************************************************************************)
MaxLines == 3      \* lines of a script
MaxTasks == 2      \* screenshot subscribe messages handled in a run
MaxSockets == 7    \* sockets the browser's client makes in a run

(***************************************************************************)
(* JavaScript values                                                       *)
(***************************************************************************)
Undef == [k |-> "undefined", v |-> ""]
Null == [k |-> "null", v |-> ""]
Str(s) == [k |-> "string", v |-> s]
Num(s) == [k |-> "number", v |-> s]
NaNV == [k |-> "number", v |-> "NaN"]
True == [k |-> "boolean", v |-> "true"]

\* !v
Falsy(val) ==
  \/ val.k \in {"undefined", "null"}
  \/ val = Str("")
  \/ val = NaNV
  \/ val = Num("0")
  \/ val = [k |-> "boolean", v |-> "false"]

\* parseFloat on the tokens the scripts of this model use
ParseFloat(tok) ==
  CASE tok = "10" -> Num("10")
    [] tok = "20" -> Num("20")
    [] tok = "10px" -> Num("10")
    [] OTHER -> NaNV

\* parts.slice(1).join(' ')
RECURSIVE Join(_)
Join(toks) ==
  IF Len(toks) = 0 THEN ""
  ELSE IF Len(toks) = 1 THEN toks[1]
  ELSE toks[1] \o " " \o Join(Tail(toks))

\* The params bag of a command.  k is the kind of the value itself ("object",
\* "null", "undefined", "number"); the fields are what destructuring reads.
EmptyParams ==
  [k |-> "object", x |-> Undef, y |-> Undef, direction |-> Undef,
   distance |-> Undef, text |-> Undef, submit |-> Undef, button |-> Undef]
NullParams == [EmptyParams EXCEPT !.k = "null"]
UndefinedParams == [EmptyParams EXCEPT !.k = "undefined"]
NumberParams == [EmptyParams EXCEPT !.k = "number"]

(***************************************************************************)
(* Device Service                                                          *)
(***************************************************************************)
\* The units the enumerators can report, in the order they report them:
\* simctl's booted simulators, then physical iOS devices, then adb devices.
SimulatorIds == <<"SIM-1">>
IosDeviceIds == <<"IOS-1">>
AndroidIds == <<"emulator-5554", "R58M">>
DeviceIds == {"SIM-1", "IOS-1", "emulator-5554", "R58M"}

Reported(ids) == SelectSeq(ids, LAMBDA id : id \in live)

\* simctlManager.listBootedSimulators(): the simulators whose state is Booted
ListBootedSimulators ==
  [n \in DOMAIN Reported(SimulatorIds) |->
     [uuid |-> Reported(SimulatorIds)[n], name |-> "iPhone 15", state |-> "Booted"]]

\* iosManager.listDevices()
IosListDevices ==
  [n \in DOMAIN Reported(IosDeviceIds) |->
     [deviceId |-> Reported(IosDeviceIds)[n], deviceName |-> "My iPhone"]]

\* androidDeviceManager.getConnectedDevices()
GetConnectedDevices ==
  [n \in DOMAIN Reported(AndroidIds) |-> [deviceId |-> Reported(AndroidIds)[n]]]

\* device.deviceId.startsWith('emulator-')
IsEmulator(id) == id \in {"emulator-5554"}

\* Map operations on a sequence of DeviceInfo in insertion order
MapHas(m, id) == \E n \in DOMAIN m : m[n].id = id
MapGet(m, id) == m[CHOOSE n \in DOMAIN m : m[n].id = id]
MapSet(m, d) ==
  IF MapHas(m, d.id)
  THEN [n \in DOMAIN m |-> IF m[n].id = d.id THEN d ELSE m[n]]
  ELSE Append(m, d)
MapKeys(m) == {m[n].id : n \in DOMAIN m}

RECURSIVE MapSetAll(_, _)
MapSetAll(m, ds) ==
  IF Len(ds) = 0 THEN m ELSE MapSetAll(MapSet(m, Head(ds)), Tail(ds))

\* lines 53-92 of listDevices: one flat list from the three enumerators
EnumeratedDevices ==
  [n \in DOMAIN ListBootedSimulators |->
     [id |-> ListBootedSimulators[n].uuid, name |-> ListBootedSimulators[n].name,
      platform |-> "ios", type |-> "simulator",
      status |-> IF ListBootedSimulators[n].state = "Booted"
                 THEN "connected" ELSE "disconnected"]]
  \o [n \in DOMAIN IosListDevices |->
     [id |-> IosListDevices[n].deviceId, name |-> IosListDevices[n].deviceName,
      platform |-> "ios", type |-> "real", status |-> "connected"]]
  \o [n \in DOMAIN GetConnectedDevices |->
     [id |-> GetConnectedDevices[n].deviceId, name |-> GetConnectedDevices[n].deviceId,
      platform |-> "android",
      type |-> IF IsEmulator(GetConnectedDevices[n].deviceId) THEN "emulator" ELSE "real",
      status |-> "connected"]]

\* a marking that is lost: the statuses read before the call are committed
MarkAbsentFromStaleRead(m, currentDeviceIds) == m

\* lines 98-103: a known device that is no longer present is marked disconnected
\* in place (the map holds the same object) ...
MarkAbsent(m, currentDeviceIds) ==
  [n \in DOMAIN m |->
     IF m[n].id \in currentDeviceIds THEN m[n]
     ELSE [m[n] EXCEPT !.status = "disconnected"]]

\* ... and pushed onto the returned list
NoTombstones(m, currentDeviceIds) == <<>>
\* a listing that pushes every tracked device, present or not
TombstonesOfAllTracked(m, currentDeviceIds) == MarkAbsent(m, currentDeviceIds)
Tombstones(m, currentDeviceIds) ==
  SelectSeq(MarkAbsent(m, currentDeviceIds), LAMBDA d : d.id \notin currentDeviceIds)

\* The list listDevices returns (line 112), from the tracked map m
ListDevicesResult(m) ==
  EnumeratedDevices \o Tombstones(m, {EnumeratedDevices[n].id : n \in DOMAIN EnumeratedDevices})

\* The tracked map after listDevices (lines 98-110): only connected entries are set
ListDevicesMap(m) ==
  MapSetAll(MarkAbsent(m, {EnumeratedDevices[n].id : n \in DOMAIN EnumeratedDevices}),
            SelectSeq(ListDevicesResult(m), LAMBDA d : d.status = "connected"))

\* a lookup that enumerates afresh
GetDeviceFresh(deviceId) ==
  IF MapHas(ListDevicesResult(devices), deviceId)
  THEN MapGet(ListDevicesResult(devices), deviceId)
  ELSE Null

\* getDevice(deviceId): this.devices.get(deviceId) || null
GetDevice(deviceId) ==
  IF MapHas(devices, deviceId) THEN MapGet(devices, deviceId) ELSE Null

\* GET /devices, or any other caller of listDevices
ListDevices ==
  /\ devices' = ListDevicesMap(devices)
  /\ listing' = ListDevicesResult(devices)
  /\ UNCHANGED live

\* The environment: a unit is plugged in, booted, unplugged or shut down
DeviceAppears(id) ==
  /\ id \notin live
  /\ live' = live \cup {id}
  /\ UNCHANGED <<devices, listing>>

DeviceVanishes(id) ==
  /\ id \in live
  /\ live' = live \ {id}
  /\ UNCHANGED <<devices, listing>>

(***************************************************************************)
(* Device Service: change callbacks and the background poll                *)
(***************************************************************************)
Callbacks == {"cb1", "cb2"}
PollTimerIds == {1, 2, 3}

\* this.wsHandler of the DeviceService that WebServer.start creates
DeviceServiceHasWsHandler == TRUE

\* logged is the message the step handed to logger.error, "" when none;
\* returned is what a getDevice call of the step returned, Undef when the
\* step made none
NoOutput == [events |-> <<>>, notified |-> {}, devices |-> <<>>, logged |-> "", returned |-> Undef]

\* a Device Service step that broadcasts nothing and calls no callback
Silent == svcOut' = NoOutput

\* notifyCallbacks(devices), lines 209-217: every registered callback, once
NotifyCallbacks(callbacks, events, list) ==
  svcOut' = [events |-> events, notified |-> callbacks, devices |-> list, logged |-> "",
             returned |-> Undef]

\* the ids of a list of devices, in order
IdsOf(list) == [n \in DOMAIN list |-> list[n].id]

\* line 165: new Set(this.devices.keys()), in the map's order
PreviousDeviceIds(m) == IdsOf(m)

\* lines 167-169: the ids of the listed devices whose status is connected
CurrentDeviceIds(currentDevices) ==
  {currentDevices[n].id : n \in {k \in DOMAIN currentDevices : currentDevices[k].status = "connected"}}

\* lines 172-174
NewDevices(m, currentDevices) ==
  SelectSeq(currentDevices, LAMBDA d : d.status = "connected" /\ ~MapHas(m, d.id))

\* lines 177-179
DisconnectedDeviceIds(m, currentDevices) ==
  SelectSeq(PreviousDeviceIds(m), LAMBDA id : id \notin CurrentDeviceIds(currentDevices))

\* lines 188-203: one broadcast per new device, then one per disconnected id
LifecycleEvents(newDevices, disconnectedDeviceIds) ==
  IF DeviceServiceHasWsHandler
  THEN [n \in DOMAIN newDevices |-> [type |-> "device_connected", id |-> newDevices[n].id]]
       \o [n \in DOMAIN disconnectedDeviceIds |->
             [type |-> "device_disconnected", id |-> disconnectedDeviceIds[n]]]
  ELSE <<>>

\* checkDeviceChanges(), lines 164-207.  listDevices has no await of its own,
\* so the map is read and updated in one synchronous segment; the rest runs
\* from the values computed there.  callbacks is this.changeCallbacks when
\* notifyCallbacks runs.
CheckDeviceChanges(callbacks) ==
  LET currentDevices == ListDevicesResult(devices)
      newDevices == NewDevices(devices, currentDevices)
      disconnectedDeviceIds == DisconnectedDeviceIds(devices, currentDevices)
  IN  /\ devices' = ListDevicesMap(devices)
      /\ listing' = currentDevices
      /\ IF Len(newDevices) > 0 \/ Len(disconnectedDeviceIds) > 0
         THEN NotifyCallbacks(callbacks, LifecycleEvents(newDevices, disconnectedDeviceIds),
                              currentDevices)
         ELSE Silent
      /\ UNCHANGED live

\* the interval of startPolling fires (lines 150-156)
PollTick(tm) ==
  /\ tm \in pollTimers
  /\ CheckDeviceChanges(changeCallbacks)
  /\ UNCHANGED <<changeCallbacks, pollingInterval, pollTimers>>

\* subscribeToDeviceChanges(callback), lines 129-136, with startPolling
\* (lines 148-162) and its immediate check when no interval is running
StartsPollingAlways(interval) == TRUE
StartsPolling(interval) == interval = 0

SubscribeToDeviceChanges(cb) ==
  /\ changeCallbacks' = changeCallbacks \cup {cb}
  /\ IF StartsPolling(pollingInterval)
     THEN /\ PollTimerIds \ pollTimers # {}
          /\ LET id == CHOOSE i \in PollTimerIds \ pollTimers :
                         \A j \in PollTimerIds \ pollTimers : i <= j
             IN  /\ pollingInterval' = id
                 /\ pollTimers' = pollTimers \cup {id}
          /\ CheckDeviceChanges(changeCallbacks \cup {cb})
     ELSE /\ Silent
          /\ UNCHANGED <<pollingInterval, pollTimers, devVars>>

\* unsubscribeFromDeviceChanges(callback), lines 138-146
UnsubscribeFromDeviceChanges(cb) ==
  /\ changeCallbacks' = changeCallbacks \ {cb}
  /\ IF changeCallbacks \ {cb} = {} /\ pollingInterval # 0
     THEN /\ pollTimers' = pollTimers \ {pollingInterval}
          /\ pollingInterval' = 0
     ELSE UNCHANGED <<pollingInterval, pollTimers>>
  /\ Silent
  /\ UNCHANGED devVars

\* cleanup(), lines 232-238
Cleanup ==
  /\ IF pollingInterval # 0
     THEN /\ pollTimers' = pollTimers \ {pollingInterval}
          /\ pollingInterval' = 0
     ELSE UNCHANGED <<pollingInterval, pollTimers>>
  /\ changeCallbacks' = {}
  /\ Silent
  /\ UNCHANGED devVars

\* device.status = status on the map's object (line 222)
SetStatus(m, deviceId, status) ==
  [n \in DOMAIN m |-> IF m[n].id = deviceId THEN [m[n] EXCEPT !.status = status] ELSE m[n]]

\* updateDeviceStatus(deviceId, status), lines 219-226
UpdateDeviceStatus(deviceId, status) ==
  /\ IF MapHas(devices, deviceId)
     THEN LET marked == SetStatus(devices, deviceId, status)
          IN  /\ devices' = ListDevicesMap(marked)
              /\ listing' = ListDevicesResult(marked)
              /\ NotifyCallbacks(changeCallbacks, <<>>, ListDevicesResult(marked))
     ELSE /\ Silent
          /\ UNCHANGED <<devices, listing>>
  /\ UNCHANGED <<live, changeCallbacks, pollingInterval, pollTimers>>

(***************************************************************************)
(* Command Service: parseScript                                            *)
(***************************************************************************)
\* A script line after trim(): raw is line.split(/\s+/) (empty for a blank
\* line), json is what JSON.parse(line) yields, NotJson when it throws.
NotJson == [k |-> "SyntaxError"]
TextLine(toks) == [raw |-> toks, json |-> NotJson]
JsonLine(tok, value) == [raw |-> <<tok>>, json |-> value]
JsonObject(command, params) == [k |-> "object", command |-> command, params |-> params]

BlankLine == TextLine(<<>>)
HashComment == TextLine(<<"#wake", "up">>)
SlashComment == TextLine(<<"//done">>)
TapLine == TextLine(<<"tap", "10", "20">>)
TapShortLine == TextLine(<<"tap", "10">>)
SwipeLine == TextLine(<<"swipe", "up">>)
SendKeysLine == TextLine(<<"sendKeys", "hello", "world">>)
PressButtonLine == TextLine(<<"pressButton", "HOME">>)
BogusLine == TextLine(<<"bogus">>)
JsonSendKeys ==
  JsonLine("{sendKeys}",
           JsonObject(Str("sendKeys"), [EmptyParams EXCEPT !.text = Str("hi"), !.submit = True]))
JsonNoParams == JsonLine("{swipe}", JsonObject(Str("swipe"), Undef))
JsonNoCommand == JsonLine("{params}", JsonObject(Undef, EmptyParams))
JsonNull == JsonLine("null", Null)

\* line.startsWith('#') || line.startsWith('//')
IsComment(line) == Len(line.raw) > 0 /\ line.raw[1] \in {"#wake", "//done"}

\* parsed.params || {}
ParamsOrEmpty(val) == IF Falsy(val) THEN EmptyParams ELSE val

\* lines 330-363: the shorthand "command arg1 arg2"
ParseShorthand(parts) ==
  LET command == parts[1]
      n == Len(parts)
      params ==
        CASE command \in {"tap", "longpress", "doubleTap"} ->
               IF n >= 3
               THEN [EmptyParams EXCEPT !.x = ParseFloat(parts[2]), !.y = ParseFloat(parts[3])]
               ELSE EmptyParams
          [] command = "swipe" ->
               IF n >= 2 THEN [EmptyParams EXCEPT !.direction = Str(parts[2])] ELSE EmptyParams
          [] command = "swipeFromCoordinate" ->
               IF n >= 4
               THEN [EmptyParams EXCEPT !.x = ParseFloat(parts[2]), !.y = ParseFloat(parts[3]),
                                        !.direction = Str(parts[4]),
                                        !.distance = IF n >= 5 THEN ParseFloat(parts[5]) ELSE Undef]
               ELSE EmptyParams
          [] command = "sendKeys" ->
               IF n >= 2 THEN [EmptyParams EXCEPT !.text = Str(Join(Tail(parts)))] ELSE EmptyParams
          [] command = "pressButton" ->
               IF n >= 2 THEN [EmptyParams EXCEPT !.button = Str(parts[2])] ELSE EmptyParams
          [] OTHER -> EmptyParams
  IN  [command |-> command, params |-> params]

\* lines 316-364: the structured form first, the shorthand when it throws
\* (JSON.parse fails, the value is null, or it has no string command)
ParseLine(line) ==
  IF /\ line.json.k = "object"
     /\ ~Falsy(line.json.command)
     /\ line.json.command.k = "string"
  THEN [command |-> line.json.command.v, params |-> ParamsOrEmpty(line.json.params)]
  ELSE ParseShorthand(line.raw)

\* a parser whose comment swallows the line after it
ParseScriptCommentSwallowsNext(lines) ==
  LET kept == SelectSeq([n \in 1..Len(lines) |-> n],
                        LAMBDA n : /\ Len(lines[n].raw) > 0
                                   /\ ~IsComment(lines[n])
                                   /\ (n = 1 \/ ~IsComment(lines[n - 1])))
  IN  [k \in 1..Len(kept) |-> ParseLine(lines[kept[k]])]

\* parseScript: blank lines are filtered out, comments skipped
RECURSIVE ParseScript(_)
ParseScript(lines) ==
  IF Len(lines) = 0 THEN <<>>
  ELSE IF Len(Head(lines).raw) = 0 \/ IsComment(Head(lines)) THEN ParseScript(Tail(lines))
  ELSE <<ParseLine(Head(lines))>> \o ParseScript(Tail(lines))

(***************************************************************************)
(* WebSocket hub: state and broadcast                                      *)
(*                                                                         *)
(* this.subscriptions maps a client to a ClientSubscription object.  An    *)
(* object that left the map is never put back (set is only called with a   *)
(* new object, lines 113 and 191) and is read through the map only, so     *)
(* what is written to it afterwards is never read again.  The map is       *)
(* therefore modelled by the object's value, and the local variable of a   *)
(* suspended call by whether it still refers to the map's object.          *)
(***************************************************************************)
Clients == {"c1", "c2"}
SubscriptionTypes == {"screenshot", "device_events", "command_results"}

\* this.subscriptions.get(clientId) is undefined
NoSub == [subscriptions |-> {}, deviceId |-> "", interval |-> 0, intervalHandle |-> 0,
          present |-> FALSE]

\* A ClientSubscription object; intervalHandle 0 is undefined
NewSubscription(flags) ==
  [subscriptions |-> flags, deviceId |-> "", interval |-> 0, intervalHandle |-> 0,
   present |-> TRUE]

\* this.subscriptions.get(clientId)?.subscriptions, empty when there is no entry
Flags(c) == subscriptions[c].subscriptions

\* broadcast(event), lines 286-313: who the event is sent to
BroadcastRecipientsConnectedOnly(type) ==
  {c \in Clients :
     /\ clientState[c] = "open"
     /\ \/ type = "connection_status"
        \/ /\ subscriptions[c].present
           /\ CASE type = "device_connected" -> "device_events" \in Flags(c)
                [] type = "command_result" -> "command_results" \in Flags(c)
                [] OTHER -> TRUE}
BroadcastRecipients(type) ==
  {c \in Clients :
     /\ clientState[c] = "open"
     /\ \/ type = "connection_status"
        \/ /\ subscriptions[c].present
           /\ CASE type \in {"device_connected", "device_disconnected"} ->
                     "device_events" \in Flags(c)
                [] type = "command_result" -> "command_results" \in Flags(c)
                [] OTHER -> TRUE}

\* a step that puts nothing on the wire
Quiet == delivered' = [via |-> "none", type |-> "", kind |-> "", deviceId |-> "", to |-> {}]

\* wsHandler.broadcast(event)
Broadcast(event) ==
  delivered' = [via |-> "broadcast", type |-> event.type, kind |-> "", deviceId |-> "",
                to |-> BroadcastRecipients(event.type)]

\* A handleSubscribe call for type screenshot, suspended at an await.  sub: the
\* local subscription of handleSubscribe (line 108) is the map's object;
\* sub2: the local subscription of startScreenshotStreaming (line 186) is.
NoTask == [pc |-> "none", client |-> "", sub |-> FALSE, sub2 |-> FALSE,
           deviceId |-> "", interval |-> 0]
DoneTask == [NoTask EXCEPT !.pc = "done"]

\* the map entry of client c was deleted: no local of a suspended call of c
\* refers to the map's object any more
Unmapped(tks, c) ==
  [t \in DOMAIN tks |->
     IF tks[t].client = c THEN [tks[t] EXCEPT !.sub = FALSE, !.sub2 = FALSE] ELSE tks[t]]

\* sendToClient(clientId, event), lines 316-321: dropped unless the socket is
\* open.  deviceId is event.data.deviceId, "" when the data has none.
SendToClient(c, type, kind, deviceId) ==
  IF clientState[c] = "open"
  THEN delivered' = [via |-> "sendToClient", type |-> type, kind |-> kind,
                     deviceId |-> deviceId, to |-> {c}]
  ELSE Quiet

\* a hub that keeps one capture loop per device: stopping a client's stream
\* clears every interval on its device
TimersAfterStopOfDevice(subs, tms, c) ==
  IF subs[c].present /\ subs[c].intervalHandle # 0
  THEN {tm \in tms : tm.deviceId # subs[c].deviceId}
  ELSE tms

\* stopScreenshotStreaming(clientId), lines 235-242, on a map subs and running
\* intervals tms: clearInterval of the entry's handle ...
TimersAfterStop(subs, tms, c) ==
  IF subs[c].present /\ subs[c].intervalHandle # 0
  THEN {tm \in tms : tm.id # subs[c].intervalHandle}
  ELSE tms

\* ... and this.subscriptions.delete(clientId)
SubscriptionsAfterStop(subs, c) == [subs EXCEPT ![c] = NoSub]

\* the 'connection' handler, lines 45-54; c1 names the client that connects first
Connect(c) ==
  /\ clientState[c] = "new"
  /\ c = "c1" \/ clientState["c1"] # "new"
  /\ clientState' = [clientState EXCEPT ![c] = "open"]
  /\ delivered' = [via |-> "sendToClient", type |-> "connection_status",
                   kind |-> "connected", deviceId |-> "", to |-> {c}]
  /\ UNCHANGED <<subscriptions, tasks, nextTask, timers, wants>>

\* handleClientDisconnect(clientId), lines 75-84
HandleClientDisconnect(c) ==
  /\ clientState[c] = "open"
  /\ timers' = TimersAfterStop(subscriptions, timers, c)
  /\ clientState' = [clientState EXCEPT ![c] = "closed"]
  /\ subscriptions' = [SubscriptionsAfterStop(subscriptions, c) EXCEPT ![c] = NoSub]
  /\ tasks' = Unmapped(tasks, c)
  /\ wants' = [wants EXCEPT ![c] = {}]
  /\ Quiet
  /\ UNCHANGED nextTask

\* the interval of the payload as it is
StreamIntervalAsGiven(interval) == interval

\* interval || 1000 (0 stands for a payload without interval)
StreamInterval(interval) == IF interval = 0 THEN 1000 ELSE interval

\* this.deviceService is set (setDeviceService, called by WebServer.start)
HasDeviceService == TRUE

\* the event classes that are a flag and nothing else
FlagTypes == {"device_events", "command_results"}

\* handleSubscribe(clientId, {type, deviceId, interval}), lines 104-130, up to
\* the first await.  For screenshot that is the device lookup of line 176,
\* reached after stopScreenshotStreaming (line 169).
HandleSubscribe(c, type, deviceId, interval) ==
  LET subs1 == IF subscriptions[c].present THEN subscriptions
               ELSE [subscriptions EXCEPT ![c] = NewSubscription({})]
      subs2 == SubscriptionsAfterStop(subs1, c)
      tasks1 == IF subs2[c].present THEN tasks ELSE Unmapped(tasks, c)
  IN  /\ clientState[c] = "open"
      /\ wants' = [wants EXCEPT ![c] = @ \cup ({type} \cap FlagTypes)]
      /\ IF type = "screenshot"
         THEN /\ nextTask <= MaxTasks
              /\ timers' = TimersAfterStop(subs1, timers, c)
              /\ subscriptions' = subs2
              /\ tasks' = [tasks1 EXCEPT ![nextTask] =
                             IF HasDeviceService
                             THEN [pc |-> "lookup", client |-> c, sub |-> subs2[c].present,
                                   sub2 |-> FALSE, deviceId |-> deviceId,
                                   interval |-> StreamInterval(interval)]
                             ELSE DoneTask]
              /\ IF HasDeviceService THEN Quiet ELSE SendToClient(c, "screenshot", "error", "")
              /\ nextTask' = nextTask + 1
         ELSE /\ subscriptions' = [subs1 EXCEPT ![c].subscriptions = @ \cup ({type} \cap FlagTypes)]
              /\ Quiet
              /\ UNCHANGED <<tasks, nextTask, timers>>
      /\ UNCHANGED clientState

\* line 120, subscription.subscriptions.add('screenshot'), on handleSubscribe's
\* local: it shows in the map only if the local still is the map's object
AddScreenshotFlag(subs, task) ==
  IF task.sub
  THEN [subs EXCEPT ![task.client].subscriptions = @ \cup {"screenshot"}]
  ELSE subs

\* startScreenshotStreaming resumes after await getDevice (lines 176-217):
\* device not found sends an error without deviceId (lines 178-181) and returns (and handleSubscribe runs line
\* 120); otherwise the subscription is fetched or created, deviceId and
\* interval are stored, and the first capture starts.
LookupReturns(t) ==
  LET task == tasks[t]
      c == task.client
      entry == IF subscriptions[c].present THEN subscriptions[c]
               ELSE NewSubscription({"screenshot"})
  IN  /\ task.pc = "lookup"
      /\ IF GetDevice(task.deviceId) = Null
         THEN /\ SendToClient(c, "screenshot", "error", "")
              /\ subscriptions' = AddScreenshotFlag(subscriptions, task)
              /\ tasks' = [tasks EXCEPT ![t] = DoneTask]
         ELSE /\ subscriptions' = [subscriptions EXCEPT ![c] =
                                     [entry EXCEPT !.deviceId = task.deviceId,
                                                   !.interval = task.interval]]
              /\ tasks' = [tasks EXCEPT ![t].pc = "capture", ![t].sub2 = TRUE]
              /\ Quiet
      /\ UNCHANGED <<clientState, nextTask, timers, wants>>

\* the first captureAndSend settles (line 217): an image or an error-shaped
\* event is sent; then line 220, subscription.intervalHandle = setInterval(...),
\* on startScreenshotStreaming's local; then handleSubscribe's line 120
CaptureReturns(t, kind) ==
  LET task == tasks[t]
      c == task.client
      subs1 == IF task.sub2 THEN [subscriptions EXCEPT ![c].intervalHandle = t]
               ELSE subscriptions
  IN  /\ task.pc = "capture"
      /\ SendToClient(c, "screenshot", kind, task.deviceId)
      /\ timers' = timers \cup {[id |-> t, client |-> c, deviceId |-> task.deviceId,
                                 interval |-> task.interval]}
      /\ subscriptions' = AddScreenshotFlag(subs1, task)
      /\ tasks' = [tasks EXCEPT ![t] = DoneTask]
      /\ UNCHANGED <<clientState, nextTask, wants>>

\* handleUnsubscribe(clientId, {type}), lines 132-151
HandleUnsubscribe(c, type) ==
  /\ clientState[c] = "open"
  /\ wants' = [wants EXCEPT ![c] = @ \ {type}]
  /\ IF ~subscriptions[c].present
     THEN UNCHANGED <<subscriptions, tasks, timers>>
     ELSE IF type = "screenshot"
     THEN /\ timers' = TimersAfterStop(subscriptions, timers, c)
          /\ subscriptions' = SubscriptionsAfterStop(subscriptions, c)
          /\ tasks' = Unmapped(tasks, c)
     ELSE /\ subscriptions' = [subscriptions EXCEPT ![c].subscriptions =
                                 @ \ ({type} \cap FlagTypes)]
          /\ UNCHANGED <<tasks, timers>>
  /\ Quiet
  /\ UNCHANGED <<clientState, nextTask>>

\* an interval that stops when a capture fails
TimerTickStopsOnError(tm, kind) ==
  /\ tm \in timers
  /\ SendToClient(tm.client, "screenshot", kind, tm.deviceId)
  /\ timers' = IF kind = "error" THEN timers \ {tm} ELSE timers
  /\ UNCHANGED <<clientState, subscriptions, tasks, nextTask, wants>>

\* an interval fires: captureAndSend (lines 198-214) sends an image, or an
\* error-shaped event with the deviceId when the capture throws
TimerTick(tm, kind) ==
  /\ tm \in timers
  /\ SendToClient(tm.client, "screenshot", kind, tm.deviceId)
  /\ UNCHANGED hubVars

\* another component calls wsHandler.broadcast with an event of this type
BroadcastEvent(type) ==
  /\ Broadcast([type |-> type])
  /\ UNCHANGED hubVars

(***************************************************************************)
(* Command Service: executeCommand                                         *)
(***************************************************************************)
ValidButtons ==
  {"HOME", "BACK", "VOLUME_UP", "VOLUME_DOWN", "ENTER",
   "DPAD_CENTER", "DPAD_UP", "DPAD_DOWN", "DPAD_LEFT", "DPAD_RIGHT"}
Directions == {"up", "down", "left", "right"}

\* Thrown values: cls is the class, string is String(error)
ErrorOf(msg) == [cls |-> "Error", message |-> Str(msg), string |-> "Error: " \o msg]
TypeErrorOf(msg) == [cls |-> "TypeError", message |-> Str(msg), string |-> "TypeError: " \o msg]
ActionableErrorOf(msg) ==
  [cls |-> "ActionableError", message |-> Str(msg), string |-> "ActionableError: " \o msg]
ThrownValue(str) == [cls |-> "value", message |-> Undef, string |-> str]
InstanceOfError(e) == e.cls \in {"Error", "TypeError", "ActionableError"}

Success(msg) == [success |-> TRUE, message |-> Str(msg)]
Failure(message) == [success |-> FALSE, message |-> message]

Return(result) == [t |-> "return", result |-> result]
Throw(error) == [t |-> "throw", error |-> error]
Invoke(ops) == [t |-> "invoke", ops |-> ops]
RobotOp(op, args) == [op |-> op, args |-> args]

\* const { x, y } = params throws a TypeError when params is null or undefined
CannotDestructure(params) == params.k \in {"null", "undefined"}
DestructureError == TypeErrorOf("Cannot destructure property of " \o "null or undefined")

HasXY(params) == params.x.k = "number" /\ params.y.k = "number"
HasDirection(params) ==
  /\ ~Falsy(params.direction)
  /\ params.direction.k = "string"
  /\ params.direction.v \in Directions

ExecuteTap(params) ==
  IF CannotDestructure(params) THEN Throw(DestructureError)
  ELSE IF ~HasXY(params) THEN Throw(ErrorOf("Tap command requires x and y coordinates"))
  ELSE Invoke(<<RobotOp("tap", <<params.x, params.y>>)>>)

ExecuteLongPress(params) ==
  IF CannotDestructure(params) THEN Throw(DestructureError)
  ELSE IF ~HasXY(params) THEN Throw(ErrorOf("Long press command requires x and y coordinates"))
  ELSE Invoke(<<RobotOp("longPress", <<params.x, params.y>>)>>)

ExecuteDoubleTap(params) ==
  IF CannotDestructure(params) THEN Throw(DestructureError)
  ELSE IF ~HasXY(params) THEN Throw(ErrorOf("Double tap command requires x and y coordinates"))
  ELSE Invoke(<<RobotOp("doubleTap", <<params.x, params.y>>)>>)

ExecuteSwipe(params) ==
  IF CannotDestructure(params) THEN Throw(DestructureError)
  ELSE IF ~HasDirection(params)
  THEN Throw(ErrorOf("Swipe command requires a valid direction (up, down, left, right)"))
  ELSE Invoke(<<RobotOp("swipe", <<params.direction>>)>>)

ExecuteSwipeFromCoordinate(params) ==
  IF CannotDestructure(params) THEN Throw(DestructureError)
  ELSE IF ~HasXY(params) THEN Throw(ErrorOf("Swipe from coordinate requires x and y coordinates"))
  ELSE IF ~HasDirection(params)
  THEN Throw(ErrorOf("Swipe from coordinate requires a valid direction (up, down, left, right)"))
  ELSE Invoke(<<RobotOp("swipeFromCoordinate",
                        <<params.x, params.y, params.direction, params.distance>>)>>)

\* robot.sendKeys(text), then robot.pressButton('ENTER') when submit === true
ExecuteSendKeys(params) ==
  IF CannotDestructure(params) THEN Throw(DestructureError)
  ELSE IF params.text.k # "string" THEN Throw(ErrorOf("Send keys command requires text parameter"))
  ELSE Invoke(<<RobotOp("sendKeys", <<params.text>>)>>
              \o IF params.submit = True THEN <<RobotOp("pressButton", <<Str("ENTER")>>)>> ELSE <<>>)

ExecutePressButton(params) ==
  IF CannotDestructure(params) THEN Throw(DestructureError)
  ELSE IF Falsy(params.button) THEN Throw(ErrorOf("Press button command requires button parameter"))
  ELSE IF ~(params.button.k = "string" /\ params.button.v \in ValidButtons)
  THEN Throw(ErrorOf("Invalid button: " \o params.button.v))
  ELSE Invoke(<<RobotOp("pressButton", <<params.button>>)>>)

\* getRobotForDevice(device), web-robot-factory.ts
GetRobotForDevice(device) ==
  IF device.platform = "ios"
  THEN Return(IF device.type = "simulator" THEN "Simctl" ELSE "IosRobot")
  ELSE IF device.platform = "android" THEN Return("AndroidRobot")
  ELSE Throw(ErrorOf("Unsupported device platform: " \o device.platform))

\* the switch of lines 60-96
SwitchCommand(command, params) ==
  CASE command = "tap" -> ExecuteTap(params)
    [] command = "longpress" -> ExecuteLongPress(params)
    [] command = "doubleTap" -> ExecuteDoubleTap(params)
    [] command = "swipe" -> ExecuteSwipe(params)
    [] command = "swipeFromCoordinate" -> ExecuteSwipeFromCoordinate(params)
    [] command = "sendKeys" -> ExecuteSendKeys(params)
    [] command = "pressButton" -> ExecutePressButton(params)
    [] OTHER -> Return(Failure(Str("Unknown command: " \o command)))

\* the catch block, lines 107-128: every thrown value becomes a result
CatchErrorRethrowsOthers(error) ==
  IF error.cls = "ActionableError" THEN Return(Failure(error.message)) ELSE Throw(error)
CatchErrorMessageOnly(error) == Return(Failure(error.message))
CatchError(error) ==
  IF error.cls = "ActionableError" THEN Return(Failure(error.message))
  ELSE Return(Failure(IF InstanceOfError(error) THEN error.message ELSE Str(error.string)))

\* the result of a command whose robot operations all resolved, lines 98-101
SuccessResult(command) == Success("Command " \o command \o " executed successfully")

\* broadcastCommandResult, lines 134-152 (the timestamp is left out)
CommandResultEvent(deviceId, command, params, result) ==
  [type |-> "command_result",
   data |-> [deviceId |-> deviceId, command |-> command, params |-> params, result |-> result]]

BroadcastCommandResultOnSuccessOnly(deviceId, command, params, result) ==
  IF wsHandler /\ result.success
  THEN /\ Broadcast(CommandResultEvent(deviceId, command, params, result))
       /\ broadcastLog' = Append(broadcastLog, CommandResultEvent(deviceId, command, params, result))
  ELSE Quiet /\ UNCHANGED broadcastLog
BroadcastCommandResult(deviceId, command, params, result) ==
  IF wsHandler
  THEN /\ Broadcast(CommandResultEvent(deviceId, command, params, result))
       /\ broadcastLog' = Append(broadcastLog, CommandResultEvent(deviceId, command, params, result))
  ELSE Quiet /\ UNCHANGED broadcastLog

\* executeCommand settles: it returns outcome.result after broadcasting it, or
\* rejects with the error no catch block handled
Settle(args, outcome) ==
  IF outcome.t = "return"
  THEN /\ ePc' = "returned"
       /\ eResult' = outcome.result
       /\ BroadcastCommandResult(args.deviceId, args.command, args.params, outcome.result)
  ELSE /\ ePc' = "threw"
       /\ eResult' = outcome.error
       /\ Quiet
       /\ UNCHANGED broadcastLog

\* executeCommand up to its first robot operation (lines 44-96)
ExecuteCommand(deviceId, command, params) ==
  LET args == [deviceId |-> deviceId, command |-> command, params |-> params]
      device == GetDevice(deviceId)
      robot == GetRobotForDevice(device)
      body == IF robot.t = "throw" THEN robot ELSE SwitchCommand(command, params)
  IN  /\ eArgs' = args
      /\ execLog' = Append(execLog, args)
      /\ IF device = Null
         THEN /\ Settle(args, Return(Failure(Str("Device not found: " \o deviceId))))
              /\ UNCHANGED <<eOps, robotLog>>
         ELSE CASE body.t = "invoke" ->
                     /\ ePc' = "await"
                     /\ eOps' = body.ops
                     /\ robotLog' = Append(robotLog, [call |-> Len(execLog) + 1, op |-> Head(body.ops)])
                     /\ Quiet
                     /\ UNCHANGED <<eResult, broadcastLog>>
                [] body.t = "throw" ->
                     /\ Settle(args, CatchError(body.error))
                     /\ UNCHANGED <<eOps, robotLog>>
                [] OTHER ->
                     /\ Settle(args, body)
                     /\ UNCHANGED <<eOps, robotLog>>

\* What a robot operation can do: resolve, or reject with an ActionableError,
\* with another Error, or with a value that is no Error
RobotOutcomes ==
  {Return("ok"),
   Throw(ActionableErrorOf("element not tappable")),
   Throw(ErrorOf("")),
   Throw(ThrownValue("adb exited with code 1"))}

\* The awaited robot operation settles
RobotSettles(outcome) ==
  /\ ePc = "await"
  /\ outcome \in RobotOutcomes
  /\ IF outcome.t = "throw"
     THEN /\ Settle(eArgs, CatchError(outcome.error))
          /\ eOps' = <<>>
          /\ UNCHANGED robotLog
     ELSE IF Len(eOps) > 1
     THEN /\ eOps' = Tail(eOps)
          /\ robotLog' = Append(robotLog, [call |-> Len(execLog), op |-> eOps[2]])
          /\ Quiet
          /\ UNCHANGED <<ePc, eResult, broadcastLog>>
     ELSE /\ Settle(eArgs, Return(SuccessResult(eArgs.command)))
          /\ eOps' = <<>>
          /\ UNCHANGED robotLog
  /\ UNCHANGED <<eArgs, execLog, wsHandler, scriptVars, devVars, hubVars>>

(***************************************************************************)
(* Command Service: executeScript                                          *)
(***************************************************************************)
\* The lines the scripts of this model are made of
ScriptLines == {BlankLine, HashComment, TapLine, TapShortLine, BogusLine, JsonSendKeys}

RECURSIVE SeqsUpTo(_, _)
SeqsUpTo(S, n) ==
  IF n = 0 THEN {<<>>}
  ELSE SeqsUpTo(S, n - 1) \cup {Append(q, e) : q \in {r \in SeqsUpTo(S, n - 1) : Len(r) = n - 1}, e \in S}

Scripts == SeqsUpTo(ScriptLines, MaxLines)

\* lines 273-278: { ...result, command, params, index: i }
AnnotatedResult(result, cmd, i) ==
  [success |-> result.success, message |-> result.message,
   command |-> Str(cmd.command), params |-> cmd.params, index |-> i]

\* lines 292-295: the entry pushed by executeScript's own catch block; it has
\* no command, params or index (index -1 stands for undefined)
OrchestrationFailure(error) ==
  [success |-> FALSE,
   message |-> IF InstanceOfError(error) THEN error.message ELSE Str(error.string),
   command |-> Undef, params |-> UndefinedParams, index |-> -1]

\* line 267: const cmd = commands[i]
NextCommandReversed(commands, i) == commands[Len(commands) - i]
NextCommand(commands, i) == commands[i + 1]

\* line 281: if (!result.success) break
StopsScriptNever(result) == FALSE
StopsScript(result) == ~result.success

\* executeScript is called: parse (line 263), results = []
StartScript(deviceId, script) ==
  /\ sPc = "idle"
  /\ sDeviceId' = deviceId
  /\ sScript' = script
  /\ sCommands' = ParseScript(script)
  /\ sI' = 0
  /\ sResults' = <<>>
  /\ sPc' = "loop"
  /\ Quiet
  /\ UNCHANGED <<wsHandler, execVars, logVars, devVars, hubVars>>

\* line 270: the next command is handed to executeCommand
ScriptDispatch ==
  /\ sPc = "loop"
  /\ sI < Len(sCommands)
  /\ ePc = "idle"
  /\ ExecuteCommand(sDeviceId, NextCommand(sCommands, sI).command,
                    NextCommand(sCommands, sI).params)
  /\ sPc' = "await"
  /\ UNCHANGED <<wsHandler, sDeviceId, sScript, sCommands, sI, sResults, devVars, hubVars>>

\* lines 270-285: the awaited executeCommand settled; push, then break or go on.
\* A rejection lands in the catch block of lines 288-298.
ScriptReceive ==
  /\ sPc = "await"
  /\ ePc \in {"returned", "threw"}
  /\ IF ePc = "returned"
     THEN /\ sResults' = Append(sResults, AnnotatedResult(eResult, NextCommand(sCommands, sI), sI))
          /\ IF StopsScript(eResult)
             THEN sPc' = "done" /\ UNCHANGED sI
             ELSE sPc' = "loop" /\ sI' = sI + 1
     ELSE /\ sResults' = Append(sResults, OrchestrationFailure(eResult))
          /\ sPc' = "done"
          /\ UNCHANGED sI
  /\ ePc' = "idle"
  /\ Quiet
  /\ UNCHANGED <<wsHandler, eArgs, eOps, eResult, sDeviceId, sScript, sCommands,
                 logVars, devVars, hubVars>>

\* line 287: the loop ran out of commands, return results
ScriptReturn ==
  /\ sPc = "loop"
  /\ sI >= Len(sCommands)
  /\ sPc' = "done"
  /\ Quiet
  /\ UNCHANGED <<wsHandler, execVars, sDeviceId, sScript, sCommands, sI, sResults,
                 logVars, devVars, hubVars>>

\* executeCommand called by itself, with any arguments
CommandNames ==
  {"tap", "longpress", "doubleTap", "swipe", "swipeFromCoordinate", "sendKeys",
   "pressButton", "reboot"}
ParamChoices ==
  {EmptyParams, NullParams, UndefinedParams, NumberParams,
   [EmptyParams EXCEPT !.x = Num("10"), !.y = Num("20")],
   [EmptyParams EXCEPT !.x = Str("10"), !.y = Num("20")],
   [EmptyParams EXCEPT !.x = Num("10"), !.y = Num("20"), !.direction = Str("up")],
   [EmptyParams EXCEPT !.direction = Str("diagonal")],
   [EmptyParams EXCEPT !.text = Str("hi"), !.submit = True],
   [EmptyParams EXCEPT !.button = Str("HOME")],
   [EmptyParams EXCEPT !.button = Str("POWER")]}

DirectCall(deviceId, command, params) ==
  /\ sPc = "idle"
  /\ ePc = "idle"
  /\ execLog = <<>>
  /\ ExecuteCommand(deviceId, command, params)
  /\ UNCHANGED <<wsHandler, scriptVars, devVars, hubVars>>

(***************************************************************************)
(* Web server (web-server.ts): the middleware pipeline of an HTTP request  *)
(* and the verification of a WebSocket upgrade                             *)
(***************************************************************************)
\* String.prototype.trim on the tokens of this model
Trim(s) ==
  CASE s = " s3cret " -> "s3cret"
    [] s = " s3cret" -> "s3cret"
    [] s = " " -> ""
    [] OTHER -> s

\* An Authorization header as it arrives: scheme is 'Bearer ' when the header
\* starts with it and empty otherwise, rest is what follows; NoHeader when
\* the request has none.  No rest of this model contains 'Bearer '.
Header(scheme, rest) == [k |-> "string", scheme |-> scheme, rest |-> rest]
NoHeader == [k |-> "undefined", scheme |-> "", rest |-> ""]

\* WebServerConfig, the fields the middleware reads
Config(enableAuth, authToken, enableCors, corsOrigins) ==
  [enableAuth |-> enableAuth, authToken |-> authToken,
   enableCors |-> enableCors, corsOrigins |-> corsOrigins]

\* The configurations validateConfig accepts (lines 87-91, 107-109): a token
\* that is not blank when authentication is on, an origin when CORS is on
Configs ==
  { Config(a[1], a[2], o[1], o[2]) :
      a \in {<<FALSE, Undef>>, <<TRUE, Str("s3cret")>>, <<TRUE, Str(" s3cret ")>>},
      o \in {<<FALSE, {}>>, <<TRUE, {"*"}>>, <<TRUE, {"https://app.example"}>>} }

\* loadConfig's defaults (lines 56-60): no authentication, CORS for any origin
DefaultConfig == Config(FALSE, Undef, TRUE, {"*"})

NoRequest ==
  [kind |-> "none", method |-> "", path |-> "", origin |-> Undef,
   authorization |-> NoHeader, body |-> "none", query |-> Null]
NoResponse == [status |-> 0, by |-> "none", ran |-> {}]

HttpRequestOf(method, path, origin, authorization, body) ==
  [kind |-> "http", method |-> method, path |-> path, origin |-> origin,
   authorization |-> authorization, body |-> body, query |-> Null]

\* The upgrade request of a WebSocket client: the token parameter of its URL
\* (null when the URL has none) and its Authorization header
UpgradeRequestOf(query, authorization) ==
  [kind |-> "upgrade", method |-> "GET", path |-> "/", origin |-> Undef,
   authorization |-> authorization, body |-> "none", query |-> query]

\* an origin callback that knows no wildcard
CorsAllowsListedOnly(origin) ==
  \/ Falsy(origin)
  \/ origin.v \in config.corsOrigins

\* The origin callback of corsOptions, lines 131-143
CorsAllows(origin) ==
  \/ Falsy(origin)
  \/ "*" \in config.corsOrigins
  \/ origin.v \in config.corsOrigins

\* express.json(), line 153: a JSON body that does not parse is an error
\* handed to the error handler
BodyParses(req) == req.body # "malformed"

\* authHeader?.startsWith('Bearer ') ? authHeader.substring(7).trim() : null
BearerToken(authHeader) ==
  IF authHeader.k = "string" /\ authHeader.scheme = "Bearer "
  THEN Str(Trim(authHeader.rest))
  ELSE Null

\* this.config.authToken?.trim()
ExpectedToken ==
  IF config.authToken.k = "string" THEN Str(Trim(config.authToken.v)) ELSE Undef

\* authMiddleware, lines 169-185: TRUE when it calls next()
AuthPasses(req) ==
  \/ req.path = "/api/health"
  \/ LET token == BearerToken(req.authorization)
         expectedToken == ExpectedToken
     IN ~(Falsy(token) \/ Falsy(expectedToken) \/ token # expectedToken)

\* the error handler, lines 224-241
ErrorStatus(message) == IF message = "Not allowed by CORS" THEN 403 ELSE 500

\* The routes of the API router (part_007) a request of this model can
\* match: the health check (line 613), the device list (line 30), one device
\* (line 40); "none" when no route matches
DevicePath(id) == "/api/devices/" \o id
RouteOf(req) ==
  CASE req.method = "GET" /\ req.path = "/api/health" -> "health"
    [] req.method = "GET" /\ req.path = "/api/devices" -> "listDevices"
    [] req.method = "GET" /\ (\E id \in DeviceIds : req.path = DevicePath(id)) -> "getDevice"
    [] OTHER -> "none"
PathDeviceId(req) == CHOOSE id \in DeviceIds : req.path = DevicePath(id)

\* what the matched route answers with: part_007 lines 30-60 and 613-615
RouteStatus(req) ==
  CASE RouteOf(req) = "getDevice" /\ GetDevice(PathDeviceId(req)) = Null -> 404
    [] OTHER -> 200

\* the route calls deviceService.listDevices(): lines 32 and 46
RouteListsDevices(req) ==
  \/ RouteOf(req) = "listDevices"
  \/ RouteOf(req) = "getDevice" /\ GetDevice(PathDeviceId(req)) = Null

\* One request through the middleware in the order setupMiddleware and
\* setupRoutes mount it: cors (line 148), the body parsers (lines 153-154),
\* authMiddleware (line 158), the API router (line 194), the error handler
\* (line 224).  ran is the set of stages that handled the request.
Respond(req) ==
  LET corsRan == IF config.enableCors THEN {"cors"} ELSE {}
      authRan == IF config.enableAuth THEN {"auth"} ELSE {}
  IN IF config.enableCors /\ ~CorsAllows(req.origin)
     THEN [status |-> ErrorStatus("Not allowed by CORS"), by |-> "errorHandler",
           ran |-> corsRan]
     ELSE IF ~BodyParses(req)
     THEN [status |-> ErrorStatus("Unexpected token"), by |-> "errorHandler",
           ran |-> corsRan \cup {"json"}]
     ELSE IF config.enableAuth /\ ~AuthPasses(req)
     THEN [status |-> 401, by |-> "auth", ran |-> corsRan \cup {"json"} \cup authRan]
     ELSE IF RouteOf(req) = "none"
     THEN [status |-> 404, by |-> "notFound", ran |-> corsRan \cup {"json"} \cup authRan]
     ELSE [status |-> RouteStatus(req), by |-> "route",
           ran |-> corsRan \cup {"json"} \cup authRan \cup {"route"}]

\* An HTTP request arrives and is answered
HttpRequest(req) ==
  /\ request' = req
  /\ response' = Respond(req)
  /\ IF Respond(req).by = "route" /\ RouteListsDevices(req)
     THEN ListDevices
     ELSE UNCHANGED devVars
  /\ UNCHANGED <<config, peer>>

\* url.searchParams.get('token') || headers.authorization?.replace('Bearer ', '')
WsToken(req) ==
  IF ~Falsy(req.query) THEN req.query
  ELSE IF req.authorization.k = "undefined" THEN Undef
  ELSE Str(req.authorization.rest)

\* a verification that lets an upgrade without token through
VerifyWebSocketClientOnlyCompares(req) ==
  LET token == WsToken(req)
  IN ~(~Falsy(token) /\ token # config.authToken)

\* verifyWebSocketClient(info), lines 309-320
VerifyWebSocketClient(req) ==
  LET token == WsToken(req)
  IN ~(Falsy(token) \/ token # config.authToken)

\* An upgrade request arrives at the WebSocketServer (start, lines 270-273):
\* verifyClient is consulted when authentication is on, and only an accepted
\* upgrade raises 'connection' (setupWebSocketServer)
Upgrade(c, req) ==
  /\ request' = req
  /\ UNCHANGED config
  /\ IF config.enableAuth /\ ~VerifyWebSocketClient(req)
     THEN /\ response' = [status |-> 401, by |-> "verifyClient", ran |-> {"verifyClient"}]
          /\ clientState[c] = "new"
          /\ c = "c1" \/ clientState["c1"] # "new"
          /\ Quiet
          /\ UNCHANGED <<hubVars, peer>>
     ELSE /\ response' = [status |-> 101, by |-> "upgrade",
                          ran |-> IF config.enableAuth THEN {"verifyClient"} ELSE {}]
          /\ Connect(c)
          /\ peer' = [peer EXCEPT ![c] = req]

\* The web server of a hub that nobody asked anything yet
InitGate(configs) ==
  /\ config \in configs
  /\ request = NoRequest
  /\ response = NoResponse
  /\ peer = [c \in Clients |-> NoRequest]

(***************************************************************************)
(* The browser's WebSocket client (frontend/src/services/websocket.ts).    *)
(* webSocketService is the one WebSocketService object; its fields:        *)
(*   ws                 this.ws: a socket id, 0 for null                   *)
(*   sockets            the sockets made by new WebSocket(url): id->state  *)
(*   reconnectAttempts, reconnectDelay, isConnecting, shouldReconnect      *)
(*   reconnectTimers    the timeouts attemptReconnect set, not yet fired   *)
(*   scheduled          history: the delays of the reconnections scheduled *)
(*                      since a socket last opened                         *)
(***************************************************************************)
maxReconnectAttempts == 5
InitialReconnectDelay == 1000
MaxReconnectDelay == 16000

Min(a, b) == IF a < b THEN a ELSE b

\* this.ws?.readyState === WebSocket.OPEN || this.isConnecting
AlreadyConnected(s) == (s.ws # 0 /\ s.sockets[s.ws] = "open") \/ s.isConnecting

\* the next socket id: ids are given in order
NextSocket(s) ==
  CHOOSE m \in 1..MaxSockets :
    s.sockets[m] = "none" /\ \A l \in 1..(m - 1) : s.sockets[l] # "none"

SocketLeft(s) == \E m \in 1..MaxSockets : s.sockets[m] = "none"

\* connect(), lines 20-78: a new socket unless one is open or on its way
ConnectSocket(s) ==
  IF AlreadyConnected(s)
  THEN s
  ELSE [s EXCEPT !.isConnecting = TRUE,
                 !.ws = NextSocket(s),
                 !.sockets[NextSocket(s)] = "connecting"]

\* the application calls connect()
CallConnect ==
  /\ SocketLeft(webSocketService)
  /\ ~AlreadyConnected(webSocketService)
  /\ webSocketService' = ConnectSocket(webSocketService)

\* the callback of attemptReconnect's setTimeout, lines 93-97
ReconnectTimerFires ==
  /\ webSocketService.reconnectTimers > 0
  /\ SocketLeft(webSocketService)
  /\ webSocketService' =
       ConnectSocket([webSocketService EXCEPT !.reconnectTimers = @ - 1])

\* ws.onopen, lines 30-40
OnOpen(n) ==
  /\ webSocketService.sockets[n] = "connecting"
  /\ webSocketService' = [webSocketService EXCEPT !.sockets[n] = "open",
                                                  !.isConnecting = FALSE,
                                                  !.reconnectAttempts = 0,
                                                  !.reconnectDelay = InitialReconnectDelay,
                                                  !.scheduled = <<>>]

\* ws.onerror, lines 51-55: the connection could not be made; the browser
\* raises close next
OnError(n) ==
  /\ webSocketService.sockets[n] = "connecting"
  /\ webSocketService' = [webSocketService EXCEPT !.sockets[n] = "failed",
                                                  !.isConnecting = FALSE]

\* Math.min(this.reconnectDelay * 2, 16000)
NextDelay(delay) == Min(delay * 2, MaxReconnectDelay)

\* a client that reconnects as long as it may
MayReconnectForever(s) == s.shouldReconnect

\* this.shouldReconnect && this.reconnectAttempts < this.maxReconnectAttempts
MayReconnect(s) == s.shouldReconnect /\ s.reconnectAttempts < maxReconnectAttempts

\* attemptReconnect(), lines 80-101
AttemptReconnect(s) ==
  [s EXCEPT !.reconnectAttempts = @ + 1,
            !.reconnectTimers = @ + 1,
            !.scheduled = Append(@, s.reconnectDelay),
            !.reconnectDelay = NextDelay(@)]

\* ws.onclose, lines 58-72
OnClose(n) ==
  LET closed == [webSocketService EXCEPT !.sockets[n] = "closed",
                                         !.isConnecting = FALSE,
                                         !.ws = 0]
  IN  /\ webSocketService.sockets[n] \in {"open", "failed", "closing"}
      /\ webSocketService' = IF MayReconnect(closed) THEN AttemptReconnect(closed) ELSE closed

\* disconnect(), lines 103-110
Disconnect ==
  webSocketService' =
    [webSocketService EXCEPT
       !.shouldReconnect = FALSE,
       !.ws = 0,
       !.sockets = IF webSocketService.ws # 0
                   THEN [@ EXCEPT ![webSocketService.ws] = "closing"]
                   ELSE @]

\* a new WebSocketService, lines 7-14
InitClient ==
  webSocketService =
    [ws |-> 0,
     sockets |-> [n \in 1..MaxSockets |-> "none"],
     reconnectAttempts |-> 0,
     reconnectDelay |-> InitialReconnectDelay,
     isConnecting |-> FALSE,
     shouldReconnect |-> TRUE,
     reconnectTimers |-> 0,
     scheduled |-> <<>>]

(***************************************************************************)
(* Configuration (web-server.ts): loadConfig and validateConfig            *)
(*                                                                         *)
(* process is a record:                                                    *)
(*   env                 process.env, the WEB_* variables (undefined or a  *)
(*                       string)                                           *)
(*   fileConfig          the parsed config file, {} when there is none     *)
(*   loaded              what loadConfig did: nothing yet, returned a      *)
(*                       WebServerConfig, or threw                         *)
(*   unhandledRejection  the error of a promise that was rejected in the   *)
(*                       latest step and that nothing awaits or catches    *)
(***************************************************************************)
False == [k |-> "boolean", v |-> "false"]
Bool(b) == IF b THEN True ELSE False
Array(items) == [k |-> "array", v |-> items]

\* a || b
Or(a, b) == IF Falsy(a) THEN b ELSE a

\* parseInt on the strings of this model
ParseInt(val) ==
  CASE val = Str("8080") -> Num("8080")
    [] val = Str("9090") -> Num("9090")
    [] val = Str("0") -> Num("0")
    [] OTHER -> NaNV

\* the number a Num stands for
NumberOf(val) ==
  CASE val = Num("0") -> 0
    [] val = Num("3000") -> 3000
    [] val = Num("3001") -> 3001
    [] val = Num("4000") -> 4000
    [] val = Num("8080") -> 8080
    [] val = Num("9090") -> 9090

\* String.prototype.split(',') on the strings of this model
Split(str) ==
  CASE str = "https://a.example,https://b.example" ->
         {"https://a.example", "https://b.example"}
    [] OTHER -> {str}

\* fs.existsSync on the certificate and key paths
ExistingFiles == {"cert.pem", "key.pem"}

NoEnv ==
  [WEB_HTTP_PORT |-> Undef, WEB_WS_PORT |-> Undef, WEB_ENABLE_AUTH |-> Undef,
   WEB_AUTH_TOKEN |-> Undef, WEB_ENABLE_CORS |-> Undef, WEB_CORS_ORIGINS |-> Undef,
   WEB_ENABLE_HTTPS |-> Undef, WEB_SSL_CERT |-> Undef, WEB_SSL_KEY |-> Undef]
NoFileConfig ==
  [httpPort |-> Undef, wsPort |-> Undef, enableAuth |-> Undef, authToken |-> Undef,
   enableCors |-> Undef, corsOrigins |-> Undef, enableHttps |-> Undef,
   sslCert |-> Undef, sslKey |-> Undef]

\* lines 53-63
BuildConfig(env, fileConfig) ==
  [httpPort |-> Or(ParseInt(Or(env.WEB_HTTP_PORT, Str(""))), Or(fileConfig.httpPort, Num("3000"))),
   wsPort |-> Or(ParseInt(Or(env.WEB_WS_PORT, Str(""))), Or(fileConfig.wsPort, Num("3001"))),
   enableAuth |-> Or(Bool(env.WEB_ENABLE_AUTH = Str("true")), Or(fileConfig.enableAuth, False)),
   authToken |-> Or(env.WEB_AUTH_TOKEN, fileConfig.authToken),
   enableCors |-> Or(Bool(env.WEB_ENABLE_CORS = Str("true")), Bool(fileConfig.enableCors # False)),
   corsOrigins |-> IF env.WEB_CORS_ORIGINS.k # "undefined"
                   THEN Array(Split(env.WEB_CORS_ORIGINS.v))
                   ELSE Or(fileConfig.corsOrigins, Array({"*"})),
   enableHttps |-> Or(Bool(env.WEB_ENABLE_HTTPS = Str("true")), Or(fileConfig.enableHttps, False)),
   sslCert |-> Or(env.WEB_SSL_CERT, fileConfig.sslCert),
   sslKey |-> Or(env.WEB_SSL_KEY, fileConfig.sslKey)]

\* validateConfig, lines 74-110: the message of the error it throws, "" when
\* it returns
ValidateConfig(c) ==
  IF NumberOf(c.httpPort) < 1 \/ NumberOf(c.httpPort) > 65535
  THEN "Invalid HTTP port"
  ELSE IF NumberOf(c.wsPort) < 1 \/ NumberOf(c.wsPort) > 65535
  THEN "Invalid WebSocket port"
  ELSE IF c.httpPort = c.wsPort
  THEN "HTTP and WebSocket ports must be different"
  ELSE IF ~Falsy(c.enableAuth) /\ (Falsy(c.authToken) \/ Trim(c.authToken.v) = "")
  THEN "Authentication is enabled but no valid auth token is provided"
  ELSE IF ~Falsy(c.enableHttps) /\ (Falsy(c.sslCert) \/ Falsy(c.sslKey))
  THEN "HTTPS is enabled but SSL certificate or key is missing"
  ELSE IF ~Falsy(c.enableHttps) /\ c.sslCert.v \notin ExistingFiles
  THEN "SSL certificate file not found"
  ELSE IF ~Falsy(c.enableHttps) /\ c.sslKey.v \notin ExistingFiles
  THEN "SSL key file not found"
  ELSE IF ~Falsy(c.enableCors) /\ (Falsy(c.corsOrigins) \/ c.corsOrigins.v = {})
  THEN "CORS is enabled but no origins are specified"
  ELSE ""

NotLoaded == [t |-> "none"]

\* loadConfig(configPath), lines 36-69
LoadConfig ==
  LET built == BuildConfig(process.env, process.fileConfig)
      problem == ValidateConfig(built)
  IN  /\ process.loaded = NotLoaded
      /\ process' = [process EXCEPT !.loaded = IF problem = ""
                                               THEN Return(built)
                                               ELSE Throw(ErrorOf(problem))]

NoRejection == [cls |-> "none"]

InitNode(envs, fileConfigs) ==
  \E env \in envs, fileConfig \in fileConfigs :
    process = [env |-> env, fileConfig |-> fileConfig, loaded |-> NotLoaded,
               unhandledRejection |-> NoRejection]

InitProcess == InitNode({NoEnv}, {NoFileConfig})

(***************************************************************************)
(* Initial states                                                          *)
(***************************************************************************)
InitCmd ==
  /\ wsHandler = TRUE
  /\ ePc = "idle"
  /\ eArgs = [deviceId |-> "", command |-> "", params |-> EmptyParams]
  /\ eOps = <<>>
  /\ eResult = Success("")
  /\ sPc = "idle"
  /\ sDeviceId = ""
  /\ sScript = <<>>
  /\ sCommands = <<>>
  /\ sI = 0
  /\ sResults = <<>>
  /\ execLog = <<>>
  /\ robotLog = <<>>
  /\ broadcastLog = <<>>

\* The fields of a new DeviceService (lines 35-37)
InitPolling ==
  /\ changeCallbacks = {}
  /\ pollingInterval = 0
  /\ pollTimers = {}
  /\ svcOut = NoOutput

InitHub ==
  /\ clientState = [c \in Clients |-> "new"]
  /\ subscriptions = [c \in Clients |-> NoSub]
  /\ tasks = [t \in 1..MaxTasks |-> NoTask]
  /\ nextTask = 1
  /\ timers = {}
  /\ wants = [c \in Clients |-> {}]
  /\ delivered = [via |-> "none", type |-> "", kind |-> "", deviceId |-> "", to |-> {}]

\* A server on which one emulator and one simulator were listed, and the
\* simulator was shut down before the next listing
InitTracked ==
  /\ live = {"emulator-5554"}
  /\ devices = <<[id |-> "SIM-1", name |-> "iPhone 15", platform |-> "ios",
                  type |-> "simulator", status |-> "disconnected"],
                 [id |-> "emulator-5554", name |-> "emulator-5554", platform |-> "android",
                  type |-> "emulator", status |-> "connected"]>>
  /\ listing = <<>>

(***************************************************************************)
(* SpecScript: one executeScript call                                      *)
(***************************************************************************)
ScriptDeviceIds == {"emulator-5554", "SIM-1", "R58M"}

\* everything outside the Device Service, the Command Service and the hub
InitOutside == InitGate({DefaultConfig}) /\ InitClient /\ InitProcess

InitScript == InitCmd /\ InitHub /\ InitTracked /\ InitPolling /\ InitOutside

outsideCmd == <<pollVars, extVars>>

NextScript ==
  \/ \E d \in ScriptDeviceIds, script \in Scripts :
       StartScript(d, script) /\ UNCHANGED outsideCmd
  \/ ScriptDispatch /\ UNCHANGED outsideCmd
  \/ \E outcome \in RobotOutcomes : RobotSettles(outcome) /\ UNCHANGED outsideCmd
  \/ ScriptReceive /\ UNCHANGED outsideCmd
  \/ ScriptReturn /\ UNCHANGED outsideCmd

SpecScript == InitScript /\ [][NextScript]_vars

(***************************************************************************)
(* SpecExec: one executeCommand call with arbitrary arguments              *)
(***************************************************************************)
NextExec ==
  \/ \E d \in ScriptDeviceIds, command \in CommandNames, params \in ParamChoices :
       DirectCall(d, command, params) /\ UNCHANGED outsideCmd
  \/ \E outcome \in RobotOutcomes : RobotSettles(outcome) /\ UNCHANGED outsideCmd

SpecExec == InitScript /\ [][NextExec]_vars

(***************************************************************************)
(* SpecDevices: the Device Service and its enumerators                     *)
(***************************************************************************)
InitDevices ==
  /\ live = {}
  /\ devices = <<>>
  /\ listing = <<>>
  /\ InitCmd
  /\ InitHub
  /\ InitPolling
  /\ InitOutside

outsideDevices == <<pollVars, cmdVars, hubVars, extVars>>

NextDevices ==
  \/ \E id \in DeviceIds : DeviceAppears(id) /\ Quiet /\ UNCHANGED outsideDevices
  \/ \E id \in DeviceIds : DeviceVanishes(id) /\ Quiet /\ UNCHANGED outsideDevices
  \/ ListDevices /\ Quiet /\ UNCHANGED outsideDevices

SpecDevices == InitDevices /\ [][NextDevices]_vars

(***************************************************************************)
(* Claims about executeScript and executeCommand                           *)
(***************************************************************************)
\* What executeCommand returned for the j-th call, as the broadcast recorded it
ReturnedBy(j) == broadcastLog[j].data.result
PlainResult(r) == [success |-> r.success, message |-> r.message]

\* C1: when executeScript has returned, the results are those of commands
\* 1..k in order, each with index i-1 and its command name and params; all but
\* the last succeeded; k < n only if the k-th failed (so k = n when none fails).
C1_StopOnFirstError ==
  sPc = "done" =>
    /\ Len(sResults) <= Len(sCommands)
    /\ \A i \in 1..Len(sResults) :
         /\ sResults[i].index = i - 1
         /\ sResults[i].command = Str(sCommands[i].command)
         /\ sResults[i].params = sCommands[i].params
         /\ PlainResult(sResults[i]) = ReturnedBy(i)
         /\ i < Len(sResults) => sResults[i].success
    /\ Len(sResults) < Len(sCommands) =>
         Len(sResults) >= 1 /\ ~sResults[Len(sResults)].success

\* a script of three commands stopped at its second
C1_Witness ==
  /\ sPc = "done"
  /\ Len(sCommands) = 3
  /\ Len(sResults) = 2
  /\ sResults[1].success
  /\ ~sResults[2].success

\* C2: executeCommand is called for commands 1, 2, ... in parse order, call
\* i+1 only once result i is there, and after a failed result there is no
\* further call and no further robot operation.
C2_SequentialDispatch ==
  /\ Len(execLog) = Len(sResults) + (IF sPc = "await" THEN 1 ELSE 0)
  /\ \A j \in 1..Len(execLog) :
       execLog[j] = [deviceId |-> sDeviceId, command |-> sCommands[j].command,
                     params |-> sCommands[j].params]
  /\ \A j \in 1..Len(robotLog) :
       /\ robotLog[j].call <= Len(execLog)
       /\ j > 1 => robotLog[j - 1].call <= robotLog[j].call
  /\ \A j \in 1..Len(sResults) :
       ~sResults[j].success =>
         /\ j = Len(sResults)
         /\ Len(execLog) = j
         /\ sPc = "done"
         /\ \A r \in 1..Len(robotLog) : robotLog[r].call <= j

\* the second command is running, the first result is known, the third waits
C2_Witness ==
  /\ sPc = "await"
  /\ ePc = "await"
  /\ Len(sCommands) = 3
  /\ Len(execLog) = 2
  /\ Len(sResults) = 1
  /\ sCommands[1] # sCommands[2]

C8_NoExceptionEscapes ==
  /\ ePc # "threw"
  /\ execLog # <<>> => ePc \in {"await", "returned"}
  /\ ePc = "returned" =>
       /\ eResult.success \in BOOLEAN
       /\ DOMAIN eResult = {"success", "message"}

\* tap with null params on a tracked device: the TypeError became a result
C8_Witness ==
  /\ ePc = "returned"
  /\ eArgs.command = "tap"
  /\ eArgs.params = NullParams
  /\ eArgs.deviceId = "emulator-5554"
  /\ ~eResult.success

\* C9: a result with success = false has a message (a string), whether it is
\* returned by executeCommand, broadcast, or an entry of executeScript's array.
C9_FailureHasMessage ==
  /\ \A i \in 1..Len(sResults) : ~sResults[i].success => sResults[i].message.k = "string"
  /\ \A j \in 1..Len(broadcastLog) : ~ReturnedBy(j).success => ReturnedBy(j).message.k = "string"
  /\ (ePc = "returned" /\ ~eResult.success) => eResult.message.k = "string"

\* the robot rejected with a value that is no Error
C9_Witness ==
  /\ Len(sResults) >= 1
  /\ ~sResults[Len(sResults)].success
  /\ sResults[Len(sResults)].message = Str("adb exited with code 1")

(***************************************************************************)
(* Claims about the Device Service                                         *)
(***************************************************************************)
ListedAs(list, id, status) == \E n \in DOMAIN list : list[n].id = id /\ list[n].status = status

\* C10: no step removes a device from the tracked map, and every listDevices
\* call lists every device tracked before it: connected when the enumerators
\* report it, disconnected when they do not (in particular a device the
\* previous listing returned as connected).
C10_DisconnectRetention ==
  [][/\ MapKeys(devices) \subseteq MapKeys(devices')
     /\ ListDevices =>
          /\ \A id \in MapKeys(devices) :
               ListedAs(listing', id, IF id \in live THEN "connected" ELSE "disconnected")
          /\ \A n \in DOMAIN listing :
               (listing[n].status = "connected" /\ listing[n].id \notin live) =>
                 ListedAs(listing', listing[n].id, "disconnected")
          /\ \A id \in MapKeys(devices) : MapHas(devices', id)]_vars

\* a listing that holds the tombstone of a device the enumerators dropped
C10_Witness ==
  \E n \in DOMAIN listing :
    /\ listing[n].id \notin live
    /\ listing[n].status = "disconnected"
    /\ MapHas(devices, listing[n].id)
    /\ GetDevice(listing[n].id).status = "disconnected"
    /\ Len(listing) >= 2

(***************************************************************************)
(* SpecHub: the WebSocket hub, its clients and the events of the server    *)
(***************************************************************************)
MessageTypes == SubscriptionTypes \cup {"logs"}
EventTypes == {"connection_status", "device_connected", "device_disconnected", "command_result"}
CaptureKinds == {"image", "error"}

\* payloads of a screenshot subscribe: a tracked device with and without an
\* interval (0), and a device id the Device Directory does not know
ScreenshotPayloads ==
  {[deviceId |-> "emulator-5554", interval |-> 0],
   [deviceId |-> "emulator-5554", interval |-> 500],
   [deviceId |-> "R58M", interval |-> 0]}

\* the payloads of SpecHub: those without an interval
HubPayloads == {p \in ScreenshotPayloads : p.interval = 0}

InitHubSpec == InitCmd /\ InitHub /\ InitTracked /\ InitPolling /\ InitOutside

outsideHub == <<devVars, pollVars, cmdVars, extVars>>

NextHub ==
  \/ \E c \in Clients : Connect(c) /\ UNCHANGED outsideHub
  \/ \E c \in Clients : HandleClientDisconnect(c) /\ UNCHANGED outsideHub
  \/ \E c \in Clients, p \in HubPayloads :
       HandleSubscribe(c, "screenshot", p.deviceId, p.interval) /\ UNCHANGED outsideHub
  \/ \E c \in Clients, type \in MessageTypes \ {"screenshot"} :
       HandleSubscribe(c, type, "", 0) /\ UNCHANGED outsideHub
  \/ \E c \in Clients, type \in MessageTypes :
       HandleUnsubscribe(c, type) /\ UNCHANGED outsideHub
  \/ \E t \in 1..MaxTasks : LookupReturns(t) /\ UNCHANGED outsideHub
  \/ \E t \in 1..MaxTasks, kind \in CaptureKinds :
       CaptureReturns(t, kind) /\ UNCHANGED outsideHub
  \/ \E tm \in timers, kind \in CaptureKinds : TimerTick(tm, kind) /\ UNCHANGED outsideHub
  \/ \E type \in EventTypes : BroadcastEvent(type) /\ UNCHANGED outsideHub

SpecHub == InitHubSpec /\ [][NextHub]_vars

DeviceEventTypes == {"device_connected", "device_disconnected"}

\* C3: in every reachable state every running screenshot timer belongs to a
\* client whose connection is open, and a client whose connection closed has
\* no subscription entry left.
C3_NoTimerAfterClose ==
  /\ \A tm \in timers : clientState[tm.client] = "open"
  /\ \A c \in Clients : clientState[c] = "closed" => ~subscriptions[c].present

\* C4: a broadcast command_result reaches every connected client that
\* subscribed to command_results and has not unsubscribed from it since,
\* whatever else it subscribed to or unsubscribed from; likewise a broadcast
\* device_connected or device_disconnected and device_events.
C4_SubscribedReceivesEvery ==
  delivered.via = "broadcast" =>
    \A c \in Clients :
      clientState[c] = "open" =>
        /\ (delivered.type = "command_result" /\ "command_results" \in wants[c]) =>
             c \in delivered.to
        /\ (delivered.type \in DeviceEventTypes /\ "device_events" \in wants[c]) =>
             c \in delivered.to

\* C5: a broadcast device_connected or device_disconnected is sent only to
\* clients whose subscription set holds device_events, and a broadcast
\* command_result only to clients whose set holds command_results; and a set
\* holds such a flag only while the client has subscribed to it and not
\* unsubscribed since.
C5_UnsubscribedNeverReceives ==
  /\ \A c \in Clients : Flags(c) \cap FlagTypes \subseteq wants[c]
  /\ delivered.via = "broadcast" =>
       \A c \in delivered.to :
         /\ delivered.type \in DeviceEventTypes => "device_events" \in Flags(c)
         /\ delivered.type = "command_result" => "command_results" \in Flags(c)

\* a device_disconnected broadcast that reaches c1 and is withheld from c2,
\* which is connected and subscribed to command_results only
C5_Witness ==
  /\ delivered.via = "broadcast"
  /\ delivered.type = "device_disconnected"
  /\ delivered.to = {"c1"}
  /\ clientState["c2"] = "open"
  /\ Flags("c2") = {"command_results"}
  /\ wants["c2"] = {"command_results"}

\* C6: an unsubscribe message for type T leaves the client's subscription set
\* equal to the set before without T, and when T is screenshot no screenshot
\* timer of that client is left running.
C6_UnsubscribeRemovesOnlyFlag ==
  [][\A c \in Clients, T \in SubscriptionTypes :
       HandleUnsubscribe(c, T) =>
         /\ Flags(c)' = Flags(c) \ {T}
         /\ T = "screenshot" => \A tm \in timers' : tm.client # c]_vars

(***************************************************************************)
(* SpecPoll: a Device Service with change callbacks and its poll timer     *)
(***************************************************************************)
\* the units that come and go in this specification; R58M is never attached
PollDeviceIds == {"SIM-1", "emulator-5554"}
Statuses == {"connected", "disconnected"}

InitPoll == InitDevices

outsidePoll == <<cmdVars, hubVars, extVars>>

NextPoll ==
  \/ \E id \in PollDeviceIds :
       DeviceAppears(id) /\ Silent /\ Quiet
       /\ UNCHANGED <<changeCallbacks, pollingInterval, pollTimers, outsidePoll>>
  \/ \E id \in PollDeviceIds :
       DeviceVanishes(id) /\ Silent /\ Quiet
       /\ UNCHANGED <<changeCallbacks, pollingInterval, pollTimers, outsidePoll>>
  \/ ListDevices /\ Silent /\ Quiet
       /\ UNCHANGED <<changeCallbacks, pollingInterval, pollTimers, outsidePoll>>
  \/ \E cb \in Callbacks : SubscribeToDeviceChanges(cb) /\ Quiet /\ UNCHANGED outsidePoll
  \/ \E cb \in Callbacks : UnsubscribeFromDeviceChanges(cb) /\ Quiet /\ UNCHANGED outsidePoll
  \/ Cleanup /\ Quiet /\ UNCHANGED outsidePoll
  \/ \E tm \in pollTimers : PollTick(tm) /\ Quiet /\ UNCHANGED outsidePoll
  \/ \E id \in PollDeviceIds \cup {"R58M"}, status \in Statuses :
       UpdateDeviceStatus(id, status) /\ Quiet /\ UNCHANGED outsidePoll

SpecPoll == InitPoll /\ [][NextPoll]_vars

(***************************************************************************)
(* Claims about the background poll and the change callbacks               *)
(***************************************************************************)
EventIds(events) == {events[n].id : n \in DOMAIN events}
HasEvent(events, type, id) == \E n \in DOMAIN events : events[n] = [type |-> type, id |-> id]

\* the connected set: the tracked devices whose status is connected
ConnectedSet(m) == {m[n].id : n \in {k \in DOMAIN m : m[k].status = "connected"}}

\* the devices whose liveness a poll finds changed: reported now and not in
\* the connected set, or in the connected set and not reported now
Changed == (live \ ConnectedSet(devices)) \cup (ConnectedSet(devices) \ live)

\* C11: a poll broadcasts exactly one lifecycle event for each device whose
\* liveness changed (device_connected when it is live now,
\* device_disconnected when it is not) and none for any other device, and it
\* calls the registered callbacks, with the list it got, exactly when some
\* device's liveness changed; tracked tombstones make no difference.
C11_PollEmitsOnlyChanges ==
  [][\A tm \in PollTimerIds :
       PollTick(tm) =>
         /\ EventIds(svcOut'.events) = Changed
         /\ Len(svcOut'.events) = Cardinality(Changed)
         /\ \A id \in Changed :
              HasEvent(svcOut'.events,
                       IF id \in live THEN "device_connected" ELSE "device_disconnected", id)
         /\ svcOut'.notified = (IF Changed = {} THEN {} ELSE changeCallbacks)
         /\ Changed # {} => svcOut'.devices = listing']_vars

\* C12: a poll at which the enumerators report a device that was not in the
\* connected set broadcasts device_connected for it and calls every
\* registered callback, also when the device was tracked as disconnected.
C12_ReconnectIsAnnounced ==
  [][\A tm \in PollTimerIds :
       PollTick(tm) =>
         \A id \in live \ ConnectedSet(devices) :
           /\ HasEvent(svcOut'.events, "device_connected", id)
           /\ svcOut'.notified = changeCallbacks]_vars

\* C13: the poll timer runs exactly when a change callback is registered, the
\* handle the service holds is the one timer that exists, and there is never
\* more than one.
C13_PollTimerRefCounted ==
  /\ (pollingInterval # 0) <=> (changeCallbacks # {})
  /\ pollTimers = (IF pollingInterval = 0 THEN {} ELSE {pollingInterval})
  /\ Cardinality(pollTimers) <= 1

\* two callbacks registered, one timer
C13_Witness ==
  /\ changeCallbacks = Callbacks
  /\ pollingInterval # 0
  /\ pollTimers = {pollingInterval}
  /\ Len(devices) > 0

\* C14: updateStatus on a tracked device leaves the tracked device with the
\* given status and calls every registered callback with the current list;
\* on an untracked id it changes nothing and calls no callback.
C14_UpdateStatusSticks ==
  [][\A id \in DeviceIds, status \in Statuses :
       UpdateDeviceStatus(id, status) =>
         IF MapHas(devices, id)
         THEN /\ MapHas(devices', id)
              /\ MapGet(devices', id).status = status
              /\ svcOut'.notified = changeCallbacks
              /\ svcOut'.devices = listing'
         ELSE /\ devices' = devices
              /\ svcOut'.notified = {}]_vars

(***************************************************************************)
(* SpecHttp: HTTP requests against a web server of any valid configuration *)
(***************************************************************************)
Methods == {"GET", "POST"}
Paths == {"/api/health", "/api/devices", DevicePath("emulator-5554"), DevicePath("R58M")}
Origins == {Undef, Str(""), Str("https://app.example"), Str("https://evil.example")}
AuthHeaders ==
  {NoHeader, Header("Bearer ", "s3cret"), Header("Bearer ", " s3cret"),
   Header("Bearer ", "wrong"), Header("", "s3cret")}
Bodies == {"none", "json", "malformed"}
HttpRequests ==
  {HttpRequestOf(m, p, o, a, b) :
     m \in Methods, p \in Paths, o \in Origins, a \in AuthHeaders, b \in Bodies}

InitHttp ==
  InitCmd /\ InitHub /\ InitTracked /\ InitPolling /\ InitGate(Configs) /\ InitClient /\ InitProcess

outsideHttp == <<pollVars, cmdVars, hubVars, feVars, nodeVars>>

NextHttp ==
  \E req \in HttpRequests : HttpRequest(req) /\ Quiet /\ UNCHANGED outsideHttp

SpecHttp == InitHttp /\ [][NextHttp]_vars

\* the request carries no bearer token, or one that differs (after trimming)
\* from the configured token
MissingOrWrongToken(req) ==
  \/ req.authorization.k = "undefined"
  \/ req.authorization.scheme # "Bearer "
  \/ Trim(req.authorization.rest) # Trim(config.authToken.v)

\* C15: with authentication on, a request that CORS lets through is
\* answered 401, and no route handler runs, when it is for a route other than
\* the health check and its bearer token is missing or wrong, whatever its
\* method and body; the health check is answered 200 with or without a
\* token; a request with the configured token is never answered 401.
C15_AuthEnforced ==
  (config.enableAuth /\ request.kind = "http"
     /\ (config.enableCors => CorsAllows(request.origin))) =>
    /\ (request.path # "/api/health" /\ MissingOrWrongToken(request)) =>
         (response.status = 401 /\ "route" \notin response.ran)
    /\ (request.method = "GET" /\ request.path = "/api/health") => response.status = 200
    /\ ~MissingOrWrongToken(request) => response.status # 401

(***************************************************************************)
(* SpecUpgrade: WebSocket upgrades against a hub behind verifyClient       *)
(***************************************************************************)
QueryTokens == {Null, Str(""), Str("s3cret"), Str("wrong")}
UpgradeHeaders == {NoHeader, Header("Bearer ", "s3cret"), Header("Bearer ", "wrong")}
UpgradeRequests == {UpgradeRequestOf(q, a) : q \in QueryTokens, a \in UpgradeHeaders}

\* CORS plays no part in an upgrade
UpgradeConfigs == {cfg \in Configs : ~cfg.enableCors}

InitUpgrade ==
  /\ InitCmd /\ InitHub /\ InitTracked /\ InitPolling /\ InitGate(UpgradeConfigs) /\ InitClient
  /\ InitProcess

outsideUpgrade == <<devVars, pollVars, cmdVars, feVars, nodeVars>>

NextUpgrade ==
  \/ \E c \in Clients, req \in UpgradeRequests : Upgrade(c, req) /\ UNCHANGED outsideUpgrade
  \/ \E c \in Clients :
       HandleClientDisconnect(c) /\ UNCHANGED <<outsideUpgrade, gateVars>>
  \/ \E c \in Clients :
       HandleSubscribe(c, "screenshot", "emulator-5554", 0)
       /\ UNCHANGED <<outsideUpgrade, gateVars>>
  \/ \E c \in Clients :
       HandleSubscribe(c, "device_events", "", 0) /\ UNCHANGED <<outsideUpgrade, gateVars>>
  \/ \E t \in 1..MaxTasks : LookupReturns(t) /\ UNCHANGED <<outsideUpgrade, gateVars>>
  \/ \E t \in 1..MaxTasks : CaptureReturns(t, "image") /\ UNCHANGED <<outsideUpgrade, gateVars>>

SpecUpgrade == InitUpgrade /\ [][NextUpgrade]_vars

\* the tokens an upgrade request presents: the token parameter of its URL
\* and what its Authorization header holds
Presented(req) ==
  {req.query.v : q \in {req.query} \ {Null, Str("")}}
    \cup {req.authorization.rest : a \in {req.authorization} \ {NoHeader}}

\* the hub knows client c: it is registered, or has a subscription, a
\* streaming call in flight or a timer
KnownToHub(c) ==
  \/ clientState[c] # "new"
  \/ subscriptions[c].present
  \/ \E t \in 1..MaxTasks : tasks[t].client = c
  \/ \E tm \in timers : tm.client = c

\* C16: with authentication on, an upgrade that presents no token, or only
\* tokens that differ from the configured one, is refused: the hub's state
\* does not change and nothing is sent; and every client the hub ever knows
\* (registered, subscribed, streaming) came in with the configured token.
C16_RefusedAtHandshake ==
  [][config.enableAuth =>
       /\ \A c \in Clients, req \in UpgradeRequests :
            (Upgrade(c, req) /\ config.authToken.v \notin Presented(req)) =>
              /\ UNCHANGED hubVars
              /\ delivered'.via = "none"
              /\ response'.status = 401
       /\ \A c \in Clients :
            KnownToHub(c)' => config.authToken.v \in Presented(peer'[c])]_vars

\* c1 was let in, and the upgrade of the next peer has just been refused
C16_Witness ==
  /\ config.enableAuth
  /\ request.kind = "upgrade"
  /\ response.status = 401
  /\ clientState["c1"] = "open"
  /\ clientState["c2"] = "new"
  /\ \E tm \in timers : tm.client = "c1"

(***************************************************************************)
(* SpecStream: screenshot streaming in the hub, with every payload         *)
(***************************************************************************)
StreamTypes == {"screenshot", "device_events"}

NextStream ==
  \/ \E c \in Clients : Connect(c) /\ UNCHANGED outsideHub
  \/ \E c \in Clients : HandleClientDisconnect(c) /\ UNCHANGED outsideHub
  \/ \E c \in Clients, p \in ScreenshotPayloads :
       HandleSubscribe(c, "screenshot", p.deviceId, p.interval) /\ UNCHANGED outsideHub
  \/ \E c \in Clients : HandleSubscribe(c, "device_events", "", 0) /\ UNCHANGED outsideHub
  \/ \E c \in Clients, type \in StreamTypes :
       HandleUnsubscribe(c, type) /\ UNCHANGED outsideHub
  \/ \E t \in 1..MaxTasks : LookupReturns(t) /\ UNCHANGED outsideHub
  \/ \E t \in 1..MaxTasks, kind \in CaptureKinds :
       CaptureReturns(t, kind) /\ UNCHANGED outsideHub
  \/ \E tm \in timers, kind \in CaptureKinds : TimerTick(tm, kind) /\ UNCHANGED outsideHub

SpecStream == InitHubSpec /\ [][NextStream]_vars

\* an error-shaped screenshot event with the deviceId went to client c alone
CaptureErrorSentTo(c, deviceId) ==
  delivered' = [via |-> "sendToClient", type |-> "screenshot", kind |-> "error",
                deviceId |-> deviceId, to |-> {c}]

\* C17: when a capture fails, on the initial capture or on a timer tick, and
\* the client is connected, the hub sends that client an error-shaped
\* screenshot event with the deviceId, and after the step the client's timer
\* for that device is running.
C17_CaptureErrorKeepsTimer ==
  [][/\ \A t \in 1..MaxTasks :
          (CaptureReturns(t, "error") /\ clientState[tasks[t].client] = "open") =>
            /\ CaptureErrorSentTo(tasks[t].client, tasks[t].deviceId)
            /\ \E tm \in timers' :
                 tm.client = tasks[t].client /\ tm.deviceId = tasks[t].deviceId
     /\ \A tm \in timers :
          (TimerTick(tm, "error") /\ clientState[tm.client] = "open") =>
            /\ CaptureErrorSentTo(tm.client, tm.deviceId)
            /\ tm \in timers']_vars

\* a capture error has just been sent to a client whose timer is running
C17_Witness ==
  /\ delivered.via = "sendToClient"
  /\ delivered.kind = "error"
  /\ delivered.deviceId = "emulator-5554"
  /\ \E tm \in timers : delivered.to = {tm.client} /\ tm.deviceId = delivered.deviceId

\* a screenshot event (image or error-shaped) went to client c alone
ScreenshotSentTo(c) ==
  /\ delivered'.via = "sendToClient"
  /\ delivered'.type = "screenshot"
  /\ delivered'.kind \in CaptureKinds
  /\ delivered'.to = {c}

\* C18: a screenshot subscribe asks for the payload's interval, 1000 when it
\* has none, and starts no timer; the device lookup starts no timer; when the
\* first capture settles the event is sent to the client (if connected) and
\* in that step the timer of the call starts, with the interval asked for;
\* a tick sends one screenshot event, to the timer's client only.
C18_FirstShotThenTimer ==
  [][/\ \A c \in Clients, p \in ScreenshotPayloads :
          HandleSubscribe(c, "screenshot", p.deviceId, p.interval) =>
            /\ tasks'[nextTask].interval = (IF p.interval = 0 THEN 1000 ELSE p.interval)
            /\ timers' \subseteq timers
     /\ \A t \in 1..MaxTasks : LookupReturns(t) => timers' = timers
     /\ \A t \in 1..MaxTasks, kind \in CaptureKinds :
          CaptureReturns(t, kind) =>
            /\ clientState[tasks[t].client] = "open" => ScreenshotSentTo(tasks[t].client)
            /\ \A tm \in timers : tm.id # t
            /\ timers' = timers \cup {[id |-> t, client |-> tasks[t].client,
                                       deviceId |-> tasks[t].deviceId,
                                       interval |-> tasks[t].interval]}
     /\ \A tm \in timers, kind \in CaptureKinds :
          TimerTick(tm, kind) =>
            /\ clientState[tm.client] = "open" => ScreenshotSentTo(tm.client)
            /\ delivered'.to \subseteq {tm.client}
            /\ timers' = timers]_vars

\* a timer with the default interval and one with a requested interval run,
\* and an image has just been sent to the client of one of them
C18_Witness ==
  /\ \E tm \in timers : tm.interval = 1000
  /\ \E tm \in timers : tm.interval = 500 /\ delivered.to = {tm.client}
  /\ delivered.via = "sendToClient"
  /\ delivered.kind = "image"

(***************************************************************************)
(* SpecBroadcast: broadcasts of every event type to clients with and       *)
(* without subscriptions                                                   *)
(***************************************************************************)
\* the types of the WebSocketEvent union
AllEventTypes == EventTypes \cup {"screenshot"}

NextBroadcast ==
  \/ \E c \in Clients : Connect(c) /\ UNCHANGED outsideHub
  \/ \E c \in Clients : HandleClientDisconnect(c) /\ UNCHANGED outsideHub
  \/ \E c \in Clients, type \in MessageTypes \ {"screenshot"} :
       HandleSubscribe(c, type, "", 0) /\ UNCHANGED outsideHub
  \/ \E c \in Clients, type \in MessageTypes :
       HandleUnsubscribe(c, type) /\ UNCHANGED outsideHub
  \/ \E type \in AllEventTypes : BroadcastEvent(type) /\ UNCHANGED outsideHub

SpecBroadcast == InitHubSpec /\ [][NextBroadcast]_vars

OpenClients == {c \in Clients : clientState[c] = "open"}

\* C19: a broadcast connection_status event goes to every open connection,
\* and so does a broadcast event of any type other than device_connected,
\* device_disconnected and command_result, whatever the clients subscribed
\* to, clients without any subscription included.
C19_OtherKindsReachEveryone ==
  (delivered.via = "broadcast"
     /\ delivered.type \notin DeviceEventTypes \cup {"command_result"}) =>
    delivered.to = OpenClients

(***************************************************************************)
(* SpecClient: the browser's WebSocket client and its sockets              *)
(***************************************************************************)
InitSpecClient ==
  /\ InitCmd /\ InitHub /\ InitTracked /\ InitPolling /\ InitGate({DefaultConfig}) /\ InitClient
  /\ InitProcess

outsideClient == <<devVars, pollVars, cmdVars, hubVars, delivered, gateVars, nodeVars>>

NextClient ==
  \/ CallConnect /\ UNCHANGED outsideClient
  \/ ReconnectTimerFires /\ UNCHANGED outsideClient
  \/ \E n \in 1..MaxSockets : OnOpen(n) /\ UNCHANGED outsideClient
  \/ \E n \in 1..MaxSockets : OnError(n) /\ UNCHANGED outsideClient
  \/ \E n \in 1..MaxSockets : OnClose(n) /\ UNCHANGED outsideClient
  \/ Disconnect /\ UNCHANGED outsideClient

SpecClient == InitSpecClient /\ [][NextClient]_vars

\* the documented schedule
Backoff == <<1000, 2000, 4000, 8000, 16000>>
IsPrefix(p, q) == Len(p) <= Len(q) /\ \A n \in DOMAIN p : p[n] = q[n]

\* C20: as long as no socket opens, the reconnections scheduled so far have
\* the delays 1 s, 2 s, 4 s, 8 s, 16 s in that order and there are at most
\* five of them, one per counted attempt (so none is scheduled after the
\* fifth); the delay never exceeds 16 s and the attempt counter never
\* exceeds 5.
C20_BackoffThenStop ==
  /\ IsPrefix(webSocketService.scheduled, Backoff)
  /\ webSocketService.reconnectAttempts = Len(webSocketService.scheduled)
  /\ webSocketService.reconnectAttempts <= 5
  /\ webSocketService.reconnectDelay <= 16000

\* five reconnections were scheduled and failed, the last socket is closed,
\* no timer is pending: the client has stopped although it may reconnect
C20_Witness ==
  /\ webSocketService.scheduled = Backoff
  /\ webSocketService.reconnectTimers = 0
  /\ webSocketService.shouldReconnect
  /\ webSocketService.ws = 0
  /\ \A n \in 1..MaxSockets : webSocketService.sockets[n] \in {"none", "closed"}
  /\ Cardinality({n \in 1..MaxSockets : webSocketService.sockets[n] = "closed"}) >= 6

(***************************************************************************)
(* SpecDrop: the client against a server that accepts every connection and *)
(* then drops it (the server of Property 40): a socket that is connecting  *)
(* opens, an open socket is closed by the server.  The application calls   *)
(* connect() once and may call disconnect() at any time.  The server runs  *)
(* with any of the configurations.                                         *)
(***************************************************************************)
FirstConnect ==
  /\ webSocketService.sockets[1] = "none"
  /\ CallConnect

\* the server closes the connection it accepted, or the close the client
\* asked for completes
ServerDrops(n) ==
  /\ webSocketService.sockets[n] \in {"open", "closing"}
  /\ OnClose(n)

NextDrop ==
  \/ FirstConnect /\ UNCHANGED outsideClient
  \/ ReconnectTimerFires /\ UNCHANGED outsideClient
  \/ \E n \in 1..MaxSockets : OnOpen(n) /\ UNCHANGED outsideClient
  \/ \E n \in 1..MaxSockets : ServerDrops(n) /\ UNCHANGED outsideClient
  \/ Disconnect /\ UNCHANGED outsideClient

SpecDrop == InitHttp /\ [][NextDrop]_vars

\* the connections the server has seen, and those it has dropped
ConnectionsMade(s) == Cardinality({n \in 1..MaxSockets : s.sockets[n] # "none"})
Drops(s) == Cardinality({n \in 1..MaxSockets : s.sockets[n] = "closed"})

\* C21: against a server that accepts and then drops every connection, the
\* reconnection scheduled after the k-th drop has the k-th delay of 1 s, 2 s,
\* 4 s, 8 s, 16 s, no reconnection is scheduled after the fifth one, and the
\* server sees at most 6 connections (as long as the application has not
\* called disconnect()).
C21_DropsBackOffThenStop ==
  [][webSocketService.shouldReconnect =>
       /\ \A n \in 1..MaxSockets :
            (webSocketService.sockets[n] = "open" /\ ServerDrops(n)) =>
              LET k == Drops(webSocketService')
              IN  IF k <= 5
                  THEN /\ webSocketService'.reconnectTimers = webSocketService.reconnectTimers + 1
                       /\ webSocketService'.scheduled # <<>>
                       /\ webSocketService'.scheduled[Len(webSocketService'.scheduled)] = Backoff[k]
                  ELSE webSocketService'.reconnectTimers = webSocketService.reconnectTimers
       /\ ConnectionsMade(webSocketService') <= 6]_vars

(***************************************************************************)
(* Claims about the HTTP pipeline, checked on SpecHttp                     *)
(***************************************************************************)
\* the request went past the cors middleware to the body parser
PassedCors == "json" \in response.ran
OriginListed(origin) == "*" \in config.corsOrigins \/ origin.v \in config.corsOrigins

\* C22: with CORS enabled, a request without an Origin (the header is absent
\* or empty, which the server cannot tell apart from absent) is always
\* allowed; a request with an Origin is allowed exactly when the origin is in
\* the configured list or the list contains "*", and is otherwise answered
\* 403 by the error handler, no stage after cors (body parser,
\* authentication, routes) having seen it.
C22_CorsGate ==
  (request.kind = "http" /\ config.enableCors) =>
    IF Falsy(request.origin)
    THEN PassedCors
    ELSE /\ PassedCors <=> OriginListed(request.origin)
         /\ ~PassedCors => /\ response.status = 403
                           /\ response.by = "errorHandler"
                           /\ response.ran = {"cors"}

\* an origin outside the list was refused although the request carried the
\* right token and matched a route
C22_Witness ==
  /\ request.kind = "http"
  /\ config.enableCors
  /\ config.enableAuth
  /\ request.origin = Str("https://evil.example")
  /\ ~OriginListed(request.origin)
  /\ AuthPasses(request)
  /\ RouteOf(request) # "none"
  /\ response.status = 403
  /\ response.ran = {"cors"}

(***************************************************************************)
(* SpecConfig: loadConfig under any environment and any config file        *)
(***************************************************************************)
Environments ==
  { [WEB_HTTP_PORT |-> hp, WEB_WS_PORT |-> wp, WEB_ENABLE_AUTH |-> ea,
     WEB_AUTH_TOKEN |-> at, WEB_ENABLE_CORS |-> ec, WEB_CORS_ORIGINS |-> co,
     WEB_ENABLE_HTTPS |-> eh, WEB_SSL_CERT |-> Undef, WEB_SSL_KEY |-> sk] :
      hp \in {Undef, Str("8080"), Str("0")},
      wp \in {Undef, Str("9090")},
      ea \in {Undef, Str("true"), Str("false")},
      at \in {Undef, Str("env-token")},
      ec \in {Undef, Str("false")},
      co \in {Undef, Str("https://a.example,https://b.example")},
      eh \in {Undef, Str("false")},
      sk \in {Undef, Str("key.pem")} }

FileConfigs ==
  { [httpPort |-> hp, wsPort |-> Undef, enableAuth |-> ea, authToken |-> Str("file-token"),
     enableCors |-> ec, corsOrigins |-> co, enableHttps |-> eh,
     sslCert |-> Str("cert.pem"), sslKey |-> Str("other-key.pem")] :
      hp \in {Undef, Num("4000")},
      ea \in {Undef, True},
      ec \in {Undef, False},
      co \in {Undef, Array({"https://file.example"})},
      eh \in {Undef, True} }
  \cup {NoFileConfig}

InitConfig ==
  /\ InitCmd /\ InitHub /\ InitTracked /\ InitPolling /\ InitGate({DefaultConfig}) /\ InitClient
  /\ InitNode(Environments, FileConfigs)

outsideConfig == <<devVars, pollVars, cmdVars, hubVars, delivered, gateVars, feVars>>

NextConfig == LoadConfig /\ UNCHANGED outsideConfig

SpecConfig == InitConfig /\ [][NextConfig]_vars

\* what the environment variable says, by the kind of the field
Supplied(val) == val.k # "undefined"
AsPort(val) == ParseInt(val)
AsFlag(val) == Bool(val = Str("true"))
AsList(val) == Array(Split(val.v))
Precedence(envValue, fileValue, default) ==
  IF Supplied(envValue) THEN envValue
  ELSE IF Supplied(fileValue) THEN fileValue
  ELSE default

\* C23: every field of the configuration loadConfig returns has the value of
\* its environment variable when that is set, else the config file's value
\* when the file has one, else the default; a flag the environment sets to
\* false is false, and a port the environment sets is that port.
C23_EnvThenFileThenDefault ==
  process.loaded.t = "return" =>
    LET env == process.env
        file == process.fileConfig
        c == process.loaded.result
        FromEnv(name, as) == IF Supplied(env[name]) THEN as ELSE Undef
    IN  /\ c.httpPort = Precedence(FromEnv("WEB_HTTP_PORT", AsPort(env.WEB_HTTP_PORT)),
                                   file.httpPort, Num("3000"))
        /\ c.wsPort = Precedence(FromEnv("WEB_WS_PORT", AsPort(env.WEB_WS_PORT)),
                                 file.wsPort, Num("3001"))
        /\ c.enableAuth = Precedence(FromEnv("WEB_ENABLE_AUTH", AsFlag(env.WEB_ENABLE_AUTH)),
                                     file.enableAuth, False)
        /\ c.authToken = Precedence(env.WEB_AUTH_TOKEN, file.authToken, Undef)
        /\ c.enableCors = Precedence(FromEnv("WEB_ENABLE_CORS", AsFlag(env.WEB_ENABLE_CORS)),
                                     file.enableCors, True)
        /\ c.corsOrigins = Precedence(FromEnv("WEB_CORS_ORIGINS", AsList(env.WEB_CORS_ORIGINS)),
                                      file.corsOrigins, Array({"*"}))
        /\ c.enableHttps = Precedence(FromEnv("WEB_ENABLE_HTTPS", AsFlag(env.WEB_ENABLE_HTTPS)),
                                      file.enableHttps, False)
        /\ c.sslCert = Precedence(env.WEB_SSL_CERT, file.sslCert, Undef)
        /\ c.sslKey = Precedence(env.WEB_SSL_KEY, file.sslKey, Undef)

(***************************************************************************)
(* SpecLines: executeScript on a script of one line, structured or         *)
(* shorthand, well-formed or not                                           *)
(***************************************************************************)
TapWordsLine == TextLine(<<"tap", "abc", "def">>)
SwipeDiagonalLine == TextLine(<<"swipe", "diagonal">>)
PressPowerLine == TextLine(<<"pressButton", "POWER">>)
SendKeysBareLine == TextLine(<<"sendKeys">>)
JsonTapStrings ==
  JsonLine("{tap}", JsonObject(Str("tap"), [EmptyParams EXCEPT !.x = Str("10"), !.y = Str("20")]))
JsonPressPower ==
  JsonLine("{pressButton}", JsonObject(Str("pressButton"), [EmptyParams EXCEPT !.button = Str("POWER")]))

OneLiners ==
  {TapLine, TapShortLine, TapWordsLine, SwipeLine, SwipeDiagonalLine, PressButtonLine,
   PressPowerLine, SendKeysLine, SendKeysBareLine, BogusLine, JsonSendKeys, JsonNoParams,
   JsonTapStrings, JsonPressPower}

NextLines ==
  \/ \E d \in ScriptDeviceIds, line \in OneLiners :
       StartScript(d, <<line>>) /\ UNCHANGED outsideCmd
  \/ ScriptDispatch /\ UNCHANGED outsideCmd
  \/ \E outcome \in RobotOutcomes : RobotSettles(outcome) /\ UNCHANGED outsideCmd
  \/ ScriptReceive /\ UNCHANGED outsideCmd
  \/ ScriptReturn /\ UNCHANGED outsideCmd

SpecLines == InitScript /\ [][NextLines]_vars

\* the required shape of a command, as the interface states it
IsNumeric(val) == val.k = "number" /\ val # NaNV
WellFormed(command, params) ==
  /\ params.k = "object"
  /\ CASE command \in {"tap", "longpress", "doubleTap"} ->
            IsNumeric(params.x) /\ IsNumeric(params.y)
       [] command = "swipeFromCoordinate" ->
            IsNumeric(params.x) /\ IsNumeric(params.y)
       [] command = "swipe" ->
            params.direction.k = "string" /\ params.direction.v \in Directions
       [] command = "sendKeys" -> params.text.k = "string"
       [] command = "pressButton" ->
            params.button.k = "string" /\ params.button.v \in ValidButtons
       [] OTHER -> FALSE

\* C24: for a command whose name is outside the command set or whose params
\* miss a required field or carry one of the wrong type (x and y that are
\* numbers, a direction among up/down/left/right, a string text, a button of
\* the enumeration), no robot operation is invoked and the result has
\* success = false, for structured and for shorthand script lines.
C24_MalformedNeverReachesRobot ==
  \A i \in DOMAIN execLog :
    ~WellFormed(execLog[i].command, execLog[i].params) =>
      /\ \A j \in DOMAIN robotLog : robotLog[j].call # i
      /\ (i = Len(execLog) /\ ePc = "returned") => ~eResult.success

(***************************************************************************)
(* SpecRest: a REST tap and a script against a hub whose clients subscribe *)
(* to and unsubscribe from command_results                                 *)
(***************************************************************************)
TapPath(id) == DevicePath(id) \o "/tap"
Pending == [status |-> 0, by |-> "pending", ran |-> {}]
RouteAnswer(status) ==
  [status |-> status, by |-> "route",
   ran |-> (IF config.enableCors THEN {"cors"} ELSE {}) \cup {"json", "route"}]

\* POST /devices/:deviceId/tap with body {x, y}, part_007 lines 332-358, up
\* to the await of robot.tap; the request passes cors (it has no Origin) and
\* needs no token
RestTap(deviceId, x, y) ==
  LET device == GetDevice(deviceId)
  IN  /\ request = NoRequest
      /\ ~config.enableAuth
      /\ request' = HttpRequestOf("POST", TapPath(deviceId), Undef, NoHeader, "json")
      /\ IF x.k # "number" \/ y.k # "number"
         THEN /\ response' = RouteAnswer(400)
              /\ UNCHANGED <<devVars, robotLog>>
         ELSE IF device = Null
         THEN /\ response' = RouteAnswer(404)
              /\ ListDevices
              /\ UNCHANGED robotLog
         ELSE IF GetRobotForDevice(device).t = "throw"
         THEN /\ response' = RouteAnswer(500)
              /\ UNCHANGED <<devVars, robotLog>>
         ELSE /\ response' = Pending
              /\ robotLog' = Append(robotLog, [call |-> 0, op |-> RobotOp("tap", <<x, y>>)])
              /\ UNCHANGED devVars
      /\ Quiet
      /\ UNCHANGED <<wsHandler, execVars, scriptVars, execLog, broadcastLog, hubVars,
                     config, peer, pollVars, feVars, nodeVars>>

\* robot.tap settles: lines 358-369
RestTapSettles(outcome) ==
  /\ response = Pending
  /\ outcome \in RobotOutcomes
  /\ response' = RouteAnswer(IF outcome.t = "return" THEN 200
                             ELSE IF outcome.error.cls = "ActionableError" THEN 400
                             ELSE 500)
  /\ Quiet
  /\ UNCHANGED <<request, config, peer, devVars, pollVars, cmdVars, hubVars, feVars, nodeVars>>

TapCoordinates == {<<Num("10"), Num("20")>>, <<Str("10"), Num("20")>>}

NextRest ==
  \/ \E c \in Clients : Connect(c) /\ UNCHANGED outsideHub
  \/ \E c \in Clients : HandleClientDisconnect(c) /\ UNCHANGED outsideHub
  \/ \E c \in Clients : HandleSubscribe(c, "command_results", "", 0) /\ UNCHANGED outsideHub
  \/ \E c \in Clients : HandleUnsubscribe(c, "command_results") /\ UNCHANGED outsideHub
  \/ \E d \in ScriptDeviceIds, xy \in TapCoordinates : RestTap(d, xy[1], xy[2])
  \/ \E outcome \in RobotOutcomes : RestTapSettles(outcome)
  \/ \E d \in ScriptDeviceIds, line \in {TapLine, BogusLine} :
       StartScript(d, <<line>>) /\ UNCHANGED outsideCmd
  \/ ScriptDispatch /\ UNCHANGED outsideCmd
  \/ \E outcome \in RobotOutcomes : RobotSettles(outcome) /\ UNCHANGED outsideCmd
  \/ ScriptReceive /\ UNCHANGED outsideCmd
  \/ ScriptReturn /\ UNCHANGED outsideCmd

SpecRest == InitHubSpec /\ [][NextRest]_vars

\* a command completed on a device: the robot operation a REST endpoint
\* awaited settled, or executeCommand returned after its robot operations
CommandCompletes ==
  \/ \E outcome \in RobotOutcomes : RestTapSettles(outcome)
  \/ ePc = "await" /\ ePc' = "returned"

\* C25: whenever a command completes on a device, through a REST interaction
\* endpoint or through a script, a command_result is broadcast in that step
\* and sent to every connected client that is subscribed to command_results.
C25_CompletionIsBroadcast ==
  [][CommandCompletes =>
       /\ delivered'.via = "broadcast"
       /\ delivered'.type = "command_result"
       /\ \A c \in Clients :
            (clientState'[c] = "open" /\ "command_results" \in wants'[c]) =>
              c \in delivered'.to]_vars

TimersOf(c) == {tm \in timers : tm.client = c}

\* C27: at any time a connected client has at most one running screenshot
\* timer, however its subscribe messages interleave with the device lookups
\* and first captures of its earlier subscribes.
C27_OneTimerPerClient ==
  \A c \in Clients : clientState[c] = "open" => Cardinality(TimersOf(c)) <= 1

(***************************************************************************)
(* SpecRace: the poll timer and GET /devices requests on one Device        *)
(* Service.  Once a callback is registered the poll timer keeps firing     *)
(* (setInterval, part_009 lines 150-156; nothing unsubscribes here), which *)
(* is the weak fairness of PollStep.                                       *)
(***************************************************************************)
RaceDeviceIds == {"SIM-1", "emulator-5554", "R58M"}
GetDevices == HttpRequestOf("GET", "/api/devices", Undef, NoHeader, "none")

PollStep == \E tm \in pollTimers : PollTick(tm) /\ Quiet /\ UNCHANGED outsidePoll

NextRace ==
  \/ \E id \in RaceDeviceIds :
       DeviceAppears(id) /\ Silent /\ Quiet
       /\ UNCHANGED <<changeCallbacks, pollingInterval, pollTimers, outsidePoll>>
  \/ \E id \in RaceDeviceIds :
       DeviceVanishes(id) /\ Silent /\ Quiet
       /\ UNCHANGED <<changeCallbacks, pollingInterval, pollTimers, outsidePoll>>
  \/ HttpRequest(GetDevices) /\ Silent /\ Quiet
       /\ UNCHANGED <<changeCallbacks, pollingInterval, pollTimers, outsideHttp>>
  \/ \E cb \in Callbacks : SubscribeToDeviceChanges(cb) /\ Quiet /\ UNCHANGED outsidePoll
  \/ PollStep

SpecRace == InitPoll /\ [][NextRace]_vars /\ WF_vars(PollStep)

Untracked(id) == ~MapHas(devices, id)
Announced(id) ==
  /\ HasEvent(svcOut.events, "device_connected", id)
  /\ svcOut.notified = changeCallbacks
  /\ svcOut.notified # {}

\* C28: while polling is active, a device that is untracked either stays
\* untracked for ever or is announced: some later poll broadcasts
\* device_connected for it and calls the callbacks, however polls and
\* GET /devices requests interleave.
C28_NewDeviceIsAnnounced ==
  \A id \in RaceDeviceIds :
    []((Untracked(id) /\ pollingInterval # 0) => ([]Untracked(id) \/ <>Announced(id)))

(***************************************************************************)
(* Claims about disconnect(), checked on SpecClient                        *)
(***************************************************************************)
\* C29: once disconnect() has been called (shouldReconnect is false), the
\* service makes no socket by itself: when a reconnection timer that was
\* scheduled before fires, no new socket is created.
C29_NoSocketAfterDisconnect ==
  [][(~webSocketService.shouldReconnect /\ ReconnectTimerFires) =>
       webSocketService'.sockets = webSocketService.sockets]_vars

(***************************************************************************)
(* SpecMessages: the hub's 'message' handler on every kind of JSON message *)
(***************************************************************************)
\* JSON.parse(data.toString()): an object with or without type and payload,
\* or the value null
Message(type, payload) == [k |-> "object", type |-> type, payload |-> payload]
Payload(type, deviceId, interval) ==
  [k |-> "object", type |-> type, deviceId |-> deviceId, interval |-> interval]
NoPayload == [k |-> "undefined", type |-> "", deviceId |-> "", interval |-> 0]
NullMessage == [k |-> "null", type |-> "", payload |-> NoPayload]

\* the promise handleMessage returned is rejected; the handler of line 59
\* dropped it, so nothing catches the error
Rejects(error) ==
  /\ process' = [process EXCEPT !.unhandledRejection = error]
  /\ Quiet
  /\ UNCHANGED hubVars

\* the message is logged, nothing else happens
Ignored ==
  /\ Quiet
  /\ UNCHANGED <<hubVars, process>>

\* ws.on('message') with handleMessage, lines 56-63 and 86-102: handleMessage
\* is async and is called without await or catch; the try block around the
\* call only catches what JSON.parse throws
OnMessage(c, message) ==
  /\ clientState[c] = "open"
  /\ CASE message.k = "null" ->
            Rejects(TypeErrorOf("Cannot read properties of null (reading 'type')"))
       [] message.k # "null" /\ message.type = "subscribe" ->
            IF message.payload.k = "undefined"
            THEN Rejects(DestructureError)
            ELSE /\ HandleSubscribe(c, message.payload.type, message.payload.deviceId,
                                    message.payload.interval)
                 /\ UNCHANGED process
       [] message.k # "null" /\ message.type = "unsubscribe" ->
            IF message.payload.k = "undefined"
            THEN Rejects(DestructureError)
            ELSE /\ HandleUnsubscribe(c, message.payload.type)
                 /\ UNCHANGED process
       [] OTHER -> Ignored
  /\ UNCHANGED <<devVars, pollVars, cmdVars, gateVars, feVars>>

Messages ==
  {Message("subscribe", Payload("screenshot", "emulator-5554", 0)),
   Message("subscribe", Payload("device_events", "", 0)),
   Message("subscribe", Payload("command_results", "", 0)),
   Message("subscribe", NoPayload),
   Message("unsubscribe", Payload("screenshot", "", 0)),
   Message("unsubscribe", Payload("device_events", "", 0)),
   Message("unsubscribe", NoPayload),
   Message("command", NoPayload),
   Message("ping", NoPayload),
   NullMessage}

NextMessages ==
  \/ \E c \in Clients : Connect(c) /\ UNCHANGED outsideHub
  \/ \E c \in Clients : HandleClientDisconnect(c) /\ UNCHANGED outsideHub
  \/ \E c \in Clients, message \in Messages : OnMessage(c, message)
  \/ \E t \in 1..MaxTasks : LookupReturns(t) /\ UNCHANGED outsideHub
  \/ \E t \in 1..MaxTasks, kind \in CaptureKinds :
       CaptureReturns(t, kind) /\ UNCHANGED outsideHub

SpecMessages == InitHubSpec /\ [][NextMessages]_vars

\* C30: whatever JSON message a connected client sends (subscribe or
\* unsubscribe without payload, unknown type and null included), handling it
\* leaves no promise rejected and unhandled, does not change which clients
\* are connected, and does not change the subscription or the timers of any
\* other client.
C30_AnyMessageIsHandled ==
  [][\A c \in Clients, message \in Messages :
       OnMessage(c, message) =>
         /\ process'.unhandledRejection = NoRejection
         /\ clientState' = clientState
         /\ \A d \in Clients \ {c} :
              /\ subscriptions'[d] = subscriptions[d]
              /\ {tm \in timers' : tm.client = d} = {tm \in timers : tm.client = d}]_vars

(***************************************************************************)
(* Claims about a failing screenshot subscribe, checked on SpecStream      *)
(***************************************************************************)
UnknownPayloads == {p \in ScreenshotPayloads : GetDevice(p.deviceId) = Null}

\* C31: a screenshot subscribe for a device id the Device Service does not
\* know leaves the client's subscription entry (its flags, device, interval
\* and handle) and every running timer as they were, when the message is
\* taken and when the lookup returns; the lookup's return sends the client
\* one error-shaped screenshot event and starts no timer.
C31_FailedSubscribeKeepsState ==
  [][/\ \A c \in Clients, p \in UnknownPayloads :
          HandleSubscribe(c, "screenshot", p.deviceId, p.interval) =>
            /\ subscriptions'[c] = subscriptions[c]
            /\ timers' = timers
     /\ \A t \in 1..MaxTasks :
          (LookupReturns(t) /\ GetDevice(tasks[t].deviceId) = Null) =>
            /\ delivered' = [via |-> "sendToClient", type |-> "screenshot", kind |-> "error",
                             deviceId |-> "", to |-> {tasks[t].client}]
               \/ clientState[tasks[t].client] # "open"
            /\ subscriptions' = subscriptions
            /\ timers' = timers]_vars

(***************************************************************************)
(* SpecThrow: an enumerator (simctl, go-ios, adb) may fail while the       *)
(* Device Service lists devices for a REST route, for the immediate check  *)
(* of startPolling, or for a tick of the poll timer.                        *)
(***************************************************************************)
\* listDevices when the call at line 56, 68 or 80 throws: nothing after it
\* runs, the catch at lines 113-116 logs and rethrows
ListDevicesThrowsAfterUpdate ==
  /\ devices' = ListDevicesMap(devices)
  /\ UNCHANGED <<live, listing>>

ListDevicesThrows == UNCHANGED devVars

\* the interval callback of startPolling (lines 150-156) when listDevices
\* throws inside checkDeviceChanges (line 166): the catch logs, nothing
\* after line 166 runs, the interval is not cleared
PollTickThrows(tm) ==
  /\ tm \in pollTimers
  /\ ListDevicesThrows
  /\ svcOut' = [NoOutput EXCEPT !.logged = "Error checking device changes"]
  /\ UNCHANGED <<changeCallbacks, pollingInterval, pollTimers>>

\* subscribeToDeviceChanges (lines 129-136) starting the poll, the immediate
\* check (lines 159-161) failing
SubscribeThrows(cb) ==
  /\ StartsPolling(pollingInterval)
  /\ changeCallbacks' = changeCallbacks \cup {cb}
  /\ PollTimerIds \ pollTimers # {}
  /\ LET id == CHOOSE i \in PollTimerIds \ pollTimers :
                  \A j \in PollTimerIds \ pollTimers : i <= j
     IN  /\ pollingInterval' = id
         /\ pollTimers' = pollTimers \cup {id}
  /\ ListDevicesThrows
  /\ svcOut' = [NoOutput EXCEPT !.logged = "Error in initial device check"]

\* a route that calls listDevices (part_007 lines 32 and 46) when it throws:
\* the route's catch answers 500 (lines 34-37 and 55-58)
HttpRequestThrows(req) ==
  /\ Respond(req).by = "route"
  /\ RouteListsDevices(req)
  /\ request' = req
  /\ response' = [Respond(req) EXCEPT !.status = 500]
  /\ ListDevicesThrows
  /\ UNCHANGED <<config, peer>>

ThrowDeviceIds == {"SIM-1", "emulator-5554"}
ListingRequests ==
  {GetDevices, HttpRequestOf("GET", DevicePath("R58M"), Undef, NoHeader, "none")}

NextThrow ==
  \/ \E id \in ThrowDeviceIds :
       DeviceAppears(id) /\ Silent /\ Quiet
       /\ UNCHANGED <<changeCallbacks, pollingInterval, pollTimers, outsidePoll>>
  \/ \E id \in ThrowDeviceIds :
       DeviceVanishes(id) /\ Silent /\ Quiet
       /\ UNCHANGED <<changeCallbacks, pollingInterval, pollTimers, outsidePoll>>
  \/ \E req \in ListingRequests :
       HttpRequest(req) /\ Silent /\ Quiet
       /\ UNCHANGED <<changeCallbacks, pollingInterval, pollTimers, outsideHttp>>
  \/ \E req \in ListingRequests :
       HttpRequestThrows(req) /\ Silent /\ Quiet
       /\ UNCHANGED <<changeCallbacks, pollingInterval, pollTimers, outsideHttp>>
  \/ \E cb \in Callbacks : SubscribeToDeviceChanges(cb) /\ Quiet /\ UNCHANGED outsidePoll
  \/ \E cb \in Callbacks : SubscribeThrows(cb) /\ Quiet /\ UNCHANGED outsidePoll
  \/ \E cb \in Callbacks : UnsubscribeFromDeviceChanges(cb) /\ Quiet /\ UNCHANGED outsidePoll
  \/ PollStep
  \/ \E tm \in pollTimers : PollTickThrows(tm) /\ Quiet /\ UNCHANGED outsidePoll

SpecThrow == InitPoll /\ [][NextThrow]_vars

\* C32: when an enumerator throws during listDevices, a direct caller gets
\* the error (the route answers 500) and the tracked-device map is what it
\* was before the call; when the call came from the poll timer the error
\* is logged, no callback is called and no lifecycle event is emitted in
\* that tick, and the timer is still registered, so its next tick runs.
C32_EnumeratorErrorIsContained ==
  [][/\ \A req \in ListingRequests :
          HttpRequestThrows(req) =>
            /\ response'.status = 500
            /\ devices' = devices
     /\ \A tm \in PollTimerIds :
          PollTickThrows(tm) =>
            /\ devices' = devices
            /\ svcOut'.logged # ""
            /\ svcOut'.notified = {}
            /\ svcOut'.events = <<>>
            /\ pollingInterval' = pollingInterval
            /\ tm \in pollTimers']_vars

\* a route has answered 500 and a tick of the running poll has failed
\* while the enumerators' report differs from the tracked map
C32_Witness ==
  /\ response.status = 500
  /\ svcOut.logged = "Error checking device changes"
  /\ pollingInterval \in pollTimers
  /\ devices # <<>>
  /\ live # {id \in DeviceIds : MapHas(devices, id) /\ MapGet(devices, id).status = "connected"}

(***************************************************************************)
(* SpecLookup: GET /devices and GET /devices/:deviceId on a server that    *)
(* has listed nothing yet, while devices are plugged in and unplugged      *)
(***************************************************************************)
LookupDeviceIds == {"SIM-1", "emulator-5554", "R58M"}
GetDeviceRequest(id) == HttpRequestOf("GET", DevicePath(id), Undef, NoHeader, "none")
LookupRequests == {GetDevices} \cup {GetDeviceRequest(id) : id \in LookupDeviceIds}

\* a caller awaits deviceService.getDevice(deviceId), part_009 lines 119-127
GetDeviceCall(deviceId) ==
  /\ svcOut' = [NoOutput EXCEPT !.returned = GetDevice(deviceId)]
  /\ UNCHANGED <<devVars, changeCallbacks, pollingInterval, pollTimers>>

NextLookup ==
  \/ \E id \in LookupDeviceIds : GetDeviceCall(id) /\ Quiet /\ UNCHANGED outsidePoll
  \/ \E id \in LookupDeviceIds : DeviceAppears(id) /\ Quiet /\ UNCHANGED outsideDevices
  \/ \E id \in LookupDeviceIds : DeviceVanishes(id) /\ Quiet /\ UNCHANGED outsideDevices
  \/ \E req \in LookupRequests : HttpRequest(req) /\ Quiet /\ UNCHANGED outsideHttp

SpecLookup == InitDevices /\ [][NextLookup]_vars

\* the latest response is the 404 of the route GET /devices/:deviceId
\* (part_007 lines 45-52); listing is the list its availableDevices is
\* mapped from (line 46)
AnsweredNotFound ==
  /\ request.kind = "http"
  /\ RouteOf(request) = "getDevice"
  /\ response.by = "route"
  /\ response.status = 404
AvailableDevices == {listing[n].id : n \in DOMAIN listing}

\* C33: when the device route answers 404 for an id, that id is not among
\* the availableDevices of the same response (the devices the enumerators
\* reported to that request, and the tracked ones), the first request after
\* start included.
C33_NotFoundIsNotAvailable ==
  AnsweredNotFound => PathDeviceId(request) \notin AvailableDevices

(***************************************************************************)
(* SpecAuth: one server with authentication on, asked over REST and for    *)
(* WebSocket upgrades by clients that present the same tokens              *)
(***************************************************************************)
PresentedTokens == {"s3cret", " s3cret", " s3cret ", "wrong"}
AuthConfigs == {cfg \in UpgradeConfigs : cfg.enableAuth}

\* a REST request and an upgrade request that present token in the same
\* header, Authorization: Bearer <token>
RestWith(token) == HttpRequestOf("GET", "/api/devices", Undef, Header("Bearer ", token), "none")
UpgradeWith(token) == UpgradeRequestOf(Null, Header("Bearer ", token))

InitAuth ==
  /\ InitCmd /\ InitHub /\ InitTracked /\ InitPolling /\ InitGate(AuthConfigs) /\ InitClient
  /\ InitProcess

NextAuth ==
  \/ \E token \in PresentedTokens :
       HttpRequest(RestWith(token)) /\ Quiet /\ UNCHANGED outsideHttp
  \/ \E c \in Clients, token \in PresentedTokens :
       Upgrade(c, UpgradeWith(token)) /\ UNCHANGED outsideUpgrade
  \/ \E c \in Clients :
       HandleClientDisconnect(c) /\ UNCHANGED <<outsideUpgrade, gateVars>>

SpecAuth == InitAuth /\ [][NextAuth]_vars

\* C34: with authentication on, a token that authenticated the latest REST
\* request is one verifyWebSocketClient accepts, and a token that the
\* latest upgrade was accepted with is one authMiddleware lets pass, for
\* every configured token validateConfig accepts.
C34_SameTokensBothGates ==
  /\ (request.kind = "http" /\ response.by = "route") =>
       VerifyWebSocketClient(UpgradeWith(request.authorization.rest))
  /\ (request.kind = "upgrade" /\ response.status = 101) =>
       AuthPasses(RestWith(request.authorization.rest))
  /\ (request.kind = "http" /\ response.status = 401) =>
       ~VerifyWebSocketClient(UpgradeWith(request.authorization.rest))
  /\ (request.kind = "upgrade" /\ response.status = 401) =>
       ~AuthPasses(RestWith(request.authorization.rest))

(***************************************************************************)
(* Polls and GET /devices requests on one Device Service (SpecRace).       *)
(* listDevices has no await between its first statement and its return     *)
(* (part_009 lines 52-112; the enumerators are synchronous calls), and     *)
(* checkDeviceChanges reads the previous ids in the statement before the   *)
(* call (lines 165-166): each call is one step, and the steps of the poll  *)
(* and of the routes interleave with the changes of the enumerators'       *)
(* report in any order.                                                    *)
(***************************************************************************)
\* a step in which listDevices ran: a tick of the poll, the immediate check
\* of startPolling, or the route GET /devices
ListingCall ==
  \/ PollStep
  \/ \E cb \in Callbacks : StartsPolling(pollingInterval) /\ SubscribeToDeviceChanges(cb)
  \/ HttpRequest(GetDevices)

StatusIn(list, id) == MapGet(list, id).status

\* C35: every listDevices call, from the poll or from a route, in any
\* interleaving, commits the map a serial run would: what was tracked stays
\* tracked in the same order, what the enumerators report is tracked and
\* listed as connected, what they do not report is tracked and listed as
\* disconnected if it was tracked and absent otherwise.  So two calls give
\* a device different statuses only if the report of it changed in between.
C35_ListingsAreSerial ==
  [][ListingCall =>
       /\ \A n \in DOMAIN devices : devices'[n].id = devices[n].id
       /\ Cardinality(MapKeys(devices')) = Len(devices')
       /\ \A id \in RaceDeviceIds :
            /\ id \in live =>
                 /\ MapHas(devices', id) /\ StatusIn(devices', id) = "connected"
                 /\ MapHas(listing', id) /\ StatusIn(listing', id) = "connected"
            /\ (id \notin live /\ MapHas(devices, id)) =>
                 /\ MapHas(devices', id) /\ StatusIn(devices', id) = "disconnected"
                 /\ MapHas(listing', id) /\ StatusIn(listing', id) = "disconnected"
            /\ (id \notin live /\ ~MapHas(devices, id)) =>
                 ~MapHas(devices', id) /\ ~MapHas(listing', id)]_vars

\* a route has listed the devices and the poll is running after the report
\* changed: one tracked device is connected, another is disconnected, and a
\* third is reported but not tracked yet
C35_Witness ==
  /\ request = GetDevices
  /\ response.status = 200
  /\ pollTimers # {}
  /\ \E a, b, c \in RaceDeviceIds :
       /\ MapHas(devices, a) /\ StatusIn(devices, a) = "connected" /\ a \in live
       /\ MapHas(devices, b) /\ StatusIn(devices, b) = "disconnected" /\ b \notin live
       /\ ~MapHas(devices, c) /\ c \in live

(***************************************************************************)
(* The streams of different clients (SpecStream)                           *)
(***************************************************************************)
\* a step of client a: it connects, subscribes, unsubscribes or disconnects,
\* or one of its suspended subscribe calls resumes
StepOf(a) ==
  \/ Connect(a)
  \/ HandleClientDisconnect(a)
  \/ \E p \in ScreenshotPayloads : HandleSubscribe(a, "screenshot", p.deviceId, p.interval)
  \/ HandleSubscribe(a, "device_events", "", 0)
  \/ \E type \in StreamTypes : HandleUnsubscribe(a, type)
  \/ \E t \in 1..MaxTasks : tasks[t].client = a /\ LookupReturns(t)
  \/ \E t \in 1..MaxTasks, kind \in CaptureKinds : tasks[t].client = a /\ CaptureReturns(t, kind)

\* C36: a subscribe (with its continuation), unsubscribe or disconnect of
\* one client leaves every other client's subscription entry (flags, device,
\* interval, interval handle) and running timers as they were; the timers
\* of different clients are different timers, also on the same device.
C36_StreamsAreIndependent ==
  [][\A a, b \in Clients :
       (a # b /\ StepOf(a)) =>
         /\ subscriptions'[b] = subscriptions[b]
         /\ {tm \in timers' : tm.client = b} = TimersOf(b)
         /\ \A tm \in timers' : tm.client = a =>
              \A other \in TimersOf(b) : other.id # tm.id]_vars

\* both clients stream the same device, each on its own timer, with
\* different intervals
C36_Witness ==
  \E t1 \in TimersOf("c1"), t2 \in TimersOf("c2") :
    /\ t1.deviceId = t2.deviceId
    /\ t1.interval # t2.interval
    /\ t1.id # t2.id
    /\ subscriptions["c1"].intervalHandle = t1.id
    /\ subscriptions["c2"].intervalHandle = t2.id

(***************************************************************************)
(* getDevice (SpecLookup)                                                  *)
(***************************************************************************)
\* C37: getDevice(id) returns the entry the tracked map holds for id, null
\* when it holds none, also when the enumerators report id at that moment;
\* the call changes neither the tracked map nor the enumerators' report,
\* the registered callbacks or the poll timer, and lists nothing.
C37_GetDeviceOnlyReads ==
  [][\A id \in LookupDeviceIds :
       GetDeviceCall(id) =>
         /\ svcOut'.returned = IF MapHas(devices, id) THEN MapGet(devices, id) ELSE Null
         /\ (id \in live /\ ~MapHas(devices, id)) => svcOut'.returned = Null
         /\ svcOut'.notified = {} /\ svcOut'.events = <<>>
         /\ UNCHANGED <<devices, listing, live, changeCallbacks, pollingInterval, pollTimers>>]_vars

\* getDevice has returned null while every device of the model is reported
\* by its enumerator and one of them is not tracked; another is tracked
C37_Witness ==
  /\ svcOut.returned = Null
  /\ live = LookupDeviceIds
  /\ \E id \in LookupDeviceIds : MapHas(devices, id)
  /\ Cardinality({id \in LookupDeviceIds : ~MapHas(devices, id)}) = 1
  /\ request.kind = "http" /\ response.status = 200

(***************************************************************************)
(* SpecComments: scripts with blank lines and both kinds of comment        *)
(***************************************************************************)
CommentLines == {BlankLine, HashComment, SlashComment, TapLine, JsonSendKeys}
CommentScripts == SeqsUpTo(CommentLines, MaxLines)

NextComments ==
  \/ \E script \in CommentScripts :
       StartScript("emulator-5554", script) /\ UNCHANGED outsideCmd
  \/ ScriptDispatch /\ UNCHANGED outsideCmd
  \/ \E outcome \in RobotOutcomes : RobotSettles(outcome) /\ UNCHANGED outsideCmd
  \/ ScriptReceive /\ UNCHANGED outsideCmd
  \/ ScriptReturn /\ UNCHANGED outsideCmd

SpecComments == InitScript /\ [][NextComments]_vars

\* the lines of a script that are neither blank nor a comment, in order
Remaining(script) == SelectSeq(script, LAMBDA line : Len(line.raw) > 0 /\ ~IsComment(line))

AllSucceeded == sPc = "done" /\ \A i \in DOMAIN sResults : sResults[i].success

\* C38: blank lines and lines starting with # or // are skipped and take no
\* index: when a script ended with every command successful, there are as
\* many results as remaining lines, and result i (index i - 1) carries the
\* command and parameters of the i-th remaining line.
C38_CommentsTakeNoIndex ==
  AllSucceeded =>
    /\ Len(sResults) = Len(Remaining(sScript))
    /\ \A i \in DOMAIN sResults :
         /\ sResults[i].index = i - 1
         /\ sResults[i].command = Str(ParseLine(Remaining(sScript)[i]).command)
         /\ sResults[i].params = ParseLine(Remaining(sScript)[i]).params

\* a script of a command, a comment and another command ended with two
\* successful results
C38_Witness ==
  /\ AllSucceeded
  /\ Len(sScript) = 3
  /\ sScript[2] \in {HashComment, SlashComment, BlankLine}
  /\ Len(sResults) = 2
  /\ sResults[2].index = 1

====
